---- MODULE Spec2Model ----
(***************************************************************************)
(* Variant-effect integration pipeline (src/Zscore): notation parsing,     *)
(* matrix assembly, coverage filter, cross-validated choice of the KNN     *)
(* neighbour count, KNN imputation and effect categorisation.              *)
(*                                                                         *)
(* Real numbers are exact rationals <<num, den>> in lowest terms with      *)
(* den > 0; the not-a-number value of numpy/pandas (an absent cell, 0/0)   *)
(* is <<0, 0>>.  Inputs are small integers and halves, for which the       *)
(* double arithmetic of the code is exact where the model compares values. *)
(* A z-score is <<num, den, rad>>, the number (num/den) * sqrt(rad) with   *)
(* rad a positive rational; an undefined z-score is <<0, 0, NaN>>.  Text   *)
(* is a sequence of one-character strings.                                 *)
(***************************************************************************)
EXTENDS Integers, Sequences, FiniteSets, TLC

VARIABLES
    pc,                 \* position of the running script
    \* ---- 01_data_processing.py ----
    hgvs_string,        \* the notation handed to parse_hgvs_pro
    mutations,          \* what parse_hgvs_pro returned
    raw_df,             \* raw records (experiment_id, hgvs_pro, score)
    df_processed,       \* atomic mutation records made by process_mutations
    df_scored,          \* the same records with their z_score
    heatmap_data,       \* the effect matrix built by create_heatmap_data
    stdout,             \* the lines printed by the stages of 01_data_processing.py
    \* ---- 02_data_validation.py ----
    df,                 \* the effect matrix read by the stage
    well_covered_df,    \* rows kept by the coverage filter
    coverage_stats,     \* the coverage report
    n_neighbors_list,   \* candidate neighbour counts
    n_splits,           \* number of folds
    cand,               \* index of the candidate being scored
    split,              \* fold index of the next fold
    rng,                \* state of numpy's global generator
    mse_scores,         \* per-fold MSE of the current candidate
    r2_scores,          \* per-fold R2 of the current candidate
    validation_results, \* per-candidate averages
    fold_log,           \* hidden cells and compared pairs of every fold of the call
    best_result,        \* the returned entry
    run,                \* which call of validate_knn_imputation this is
    prev_outcome,       \* outcome of the previous call on the same input
    \* ---- 03_imputation.py / 04_analysis.py ----
    n_neighbors,        \* neighbour count handed to perform_knn_imputation
    imputed_df,         \* the dense matrix
    results_df,         \* the mutation summary
    n_top,              \* length asked of each ranking
    significant_mutations, \* the four rankings of identify_significant_mutations
    \* ---- run_pipeline.py ----
    args,               \* the parsed command line (--steps, --cleanup)
    files,              \* names of the files in the working directory
    steps_to_run,       \* the requested step numbers
    step_index,         \* position of the loop in steps_to_run
    success_count,      \* steps that returned True so far
    run_step_calls,     \* the calls of run_step made so far, with what they returned
    console             \* the lines the runner printed

parseVars == <<hgvs_string, mutations>>
asmVars   == <<raw_df, df_processed, df_scored, heatmap_data, stdout>>
covVars   == <<well_covered_df, coverage_stats>>
valVars   == <<n_neighbors_list, n_splits, cand, split, rng, mse_scores, r2_scores,
               validation_results, fold_log, best_result, run, prev_outcome>>
impVars   == <<n_neighbors, imputed_df, results_df, n_top, significant_mutations>>
runVars   == <<args, files, steps_to_run, step_index, success_count, run_step_calls, console>>
vars      == <<pc, df, parseVars, asmVars, covVars, valVars, impVars, runVars>>

(***************************************************************************)
(* Exact rationals.                                                        *)
(***************************************************************************)
NaN == <<0, 0>>

IsNaN(x) == x[2] = 0

Abs(n) == IF n < 0 THEN -n ELSE n

RECURSIVE GCD(_, _)
GCD(a, b) == IF b = 0 THEN a ELSE GCD(b, a % b)

Rat(n, d) ==
    IF d = 0 THEN NaN
    ELSE LET g == GCD(Abs(n), Abs(d))
             s == IF d < 0 THEN -1 ELSE 1
         IN  <<(s * n) \div g, (s * d) \div g>>

RInt(n) == <<n, 1>>

\* The arithmetic cancels common factors before it multiplies, which keeps the
\* intermediate integers small.  Each operand is evaluated once, as the a and b
\* of a one-element set.
RAdd(x, y) ==
    CHOOSE r \in { IF IsNaN(a) \/ IsNaN(b) THEN NaN
                   ELSE Rat(a[1] * (b[2] \div GCD(a[2], b[2]))
                              + b[1] * (a[2] \div GCD(a[2], b[2])),
                            (a[2] \div GCD(a[2], b[2])) * b[2])
                   : a \in {x}, b \in {y} } : TRUE

RSub(x, y) ==
    CHOOSE r \in { IF IsNaN(a) \/ IsNaN(b) THEN NaN
                   ELSE Rat(a[1] * (b[2] \div GCD(a[2], b[2]))
                              - b[1] * (a[2] \div GCD(a[2], b[2])),
                            (a[2] \div GCD(a[2], b[2])) * b[2])
                   : a \in {x}, b \in {y} } : TRUE

RMul(x, y) ==
    CHOOSE r \in { IF IsNaN(a) \/ IsNaN(b) THEN NaN
                   ELSE Rat((a[1] \div GCD(Abs(a[1]), b[2])) * (b[1] \div GCD(Abs(b[1]), a[2])),
                            (a[2] \div GCD(Abs(b[1]), a[2])) * (b[2] \div GCD(Abs(a[1]), b[2])))
                   : a \in {x}, b \in {y} } : TRUE

\* x / y as numpy divides doubles: 0/0 and x/NaN are NaN.  (A nonzero x over 0
\* would be an infinity; no computation of the model divides that way.)
RDiv(x, y) ==
    CHOOSE r \in { IF IsNaN(a) \/ IsNaN(b) \/ b[1] = 0 THEN NaN
                   ELSE RMul(a, Rat(b[2], b[1]))
                   : a \in {x}, b \in {y} } : TRUE

\* IEEE comparisons: every comparison with NaN is false.
RLess(x, y) ==
    \E a \in {x}, b \in {y} :
        /\ ~IsNaN(a) /\ ~IsNaN(b)
        /\ a[1] * (b[2] \div GCD(a[2], b[2])) < b[1] * (a[2] \div GCD(a[2], b[2]))

RLeq(x, y) ==
    \E a \in {x}, b \in {y} :
        /\ ~IsNaN(a) /\ ~IsNaN(b)
        /\ a[1] * (b[2] \div GCD(a[2], b[2])) <= b[1] * (a[2] \div GCD(a[2], b[2]))

RECURSIVE RSumFrom(_, _)
RSumFrom(s, i) == IF i > Len(s) THEN RInt(0) ELSE RAdd(s[i], RSumFrom(s, i + 1))

RSum(s) == CHOOSE t \in { RSumFrom(v, 1) : v \in {s} } : TRUE

\* np.mean of a non-empty sequence (NaN if any member is NaN).
RMean(s) == RDiv(RSum(s), RInt(Len(s)))

\* The members of s that are not NaN, in order.
Present(s) == SelectSeq(s, LAMBDA x : ~IsNaN(x))

(***************************************************************************)
(* Data frames: [index, columns, data], data a sequence of rows, each row  *)
(* a sequence of Len(columns) cells.                                       *)
(***************************************************************************)
Frame(index, columns, data) == [index |-> index, columns |-> columns, data |-> data]

NRows(f) == Len(f.index)

NCols(f) == Len(f.columns)

\* df.count(axis=1): present entries of a row.
RowCount(row) == Len(Present(row))

\* df.count().sum(): present entries of the frame.
RECURSIVE CountSum(_)
CountSum(data) == IF data = <<>> THEN 0 ELSE RowCount(data[1]) + CountSum(Tail(data))

\* df[mask] for a boolean row mask: the rows r with keep[r], in order.
RECURSIVE KeepIdx(_, _)
KeepIdx(keep, r) ==
    IF r > Len(keep) THEN <<>>
    ELSE (IF keep[r] THEN <<r>> ELSE <<>>) \o KeepIdx(keep, r + 1)

RowSubset(f, keep) ==
    LET idx == KeepIdx(keep, 1)
    IN  Frame([i \in 1..Len(idx) |-> f.index[idx[i]]], f.columns,
              [i \in 1..Len(idx) |-> f.data[idx[i]]])

(***************************************************************************)
(* sklearn.impute.KNNImputer(n_neighbors=k).fit_transform(X), with the     *)
(* defaults the code leaves in place: nan_euclidean distance, uniform      *)
(* weights, columns without any present value dropped from the output.     *)
(***************************************************************************)
\* Squared nan-euclidean distance of two rows up to the common factor
\* (number of columns): sum of squared differences over the columns present
\* in both, divided by the number of such columns; NaN if there is none.
NanDist(x, y) ==
    LET both == {c \in 1..Len(x) : ~IsNaN(x[c]) /\ ~IsNaN(y[c])}
        sq(c) == RMul(RSub(x[c], y[c]), RSub(x[c], y[c]))
        ssq   == RSum([i \in 1..Len(x) |-> IF i \in both THEN sq(i) ELSE RInt(0)])
    IN  IF both = {} THEN NaN ELSE RDiv(ssq, RInt(Cardinality(both)))

\* numpy's ordering of doubles: NaN sorts after every number.
NpLess(a, b) == RLess(a, b) \/ (IsNaN(b) /\ ~IsNaN(a))

\* Position of the first minimum of v[order[j]], j in i..Len(order).
RECURSIVE MinPos(_, _, _, _)
MinPos(v, order, j, best) ==
    IF j > Len(order) THEN best
    ELSE MinPos(v, order, j + 1, IF NpLess(v[order[j]], v[order[best]]) THEN j ELSE best)

Swap(order, i, j) ==
    [p \in 1..Len(order) |-> IF p = i THEN order[j] ELSE IF p = j THEN order[i] ELSE order[p]]

\* <<1, ..., m>>
RECURSIVE Iota(_)
Iota(m) == IF m = 0 THEN <<>> ELSE Append(Iota(m - 1), m)

\* np.argpartition(v, kth)[:kth+1] as numpy's selection runs it for small kth:
\* a selection sort of the first n places, the first minimum taken on ties.
RECURSIVE SelectSmallest(_, _, _, _)
SelectSmallest(v, order, i, n) ==
    IF i > n THEN SubSeq(order, 1, n)
    ELSE SelectSmallest(v, Swap(order, i, MinPos(v, order, i + 1, i)), i + 1, n)

\* Rows with a present value in column c, ascending.
Donors(X, c) == KeepIdx([r \in 1..Len(X) |-> ~IsNaN(X[r][c])], 1)

\* Variant: every chosen donor counts, also one without common column.
ImputeCellAllChosen(X, r, c, k) ==
    LET donors == Donors(X, c)
        dist   == [i \in 1..Len(donors) |-> NanDist(X[r], X[donors[i]])]
        n      == IF k < Len(donors) THEN k ELSE Len(donors)
        chosen == SelectSmallest(dist, Iota(Len(donors)), 1, n)
    IN  RMean([i \in 1..Len(chosen) |-> X[donors[chosen[i]]][c]])

\* The value KNNImputer writes into the missing cell (r, c); column c has a donor.
\* A chosen donor at undefined distance gets weight 0; when every donor is at
\* undefined distance the value is the mean of the column.
ImputeCell(X, r, c, k) ==
    CHOOSE v \in
      { LET allnan == \A i \in 1..Len(donors) : IsNaN(dist[i])
            n      == IF k < Len(donors) THEN k ELSE Len(donors)
            chosen == SelectSmallest(dist, Iota(Len(donors)), 1, n)
            used   == SelectSeq(chosen, LAMBDA i : ~IsNaN(dist[i]))
        IN  IF allnan
            THEN RMean([i \in 1..Len(donors) |-> X[donors[i]][c]])
            ELSE RMean([i \in 1..Len(used) |-> X[donors[used[i]]][c]])
        : donors \in {Donors(X, c)},
          dist   \in {[i \in 1..Len(Donors(X, c)) |-> NanDist(X[r], X[Donors(X, c)[i]])]} } : TRUE

\* Columns with at least one present value (KNNImputer's _valid_mask).
ValidCols(X) == KeepIdx([c \in 1..Len(X[1]) |-> \E r \in 1..Len(X) : ~IsNaN(X[r][c])], 1)

\* Variant: every cell, present or not, is recomputed from the neighbours.
KNNImputeRefill(X, k) ==
    IF Len(X) = 0 THEN [err |-> "ValueError", data |-> <<>>]
    ELSE [err  |-> "",
          data |-> [r \in 1..Len(X) |->
                     [j \in 1..Len(ValidCols(X)) |-> ImputeCell(X, r, ValidCols(X)[j], k)]]]

\* fit_transform: [err, data].  Zero rows are refused (ValueError); otherwise
\* the valid columns, each missing cell filled.
KNNImpute(X, k) ==
    CHOOSE out \in
      { IF Len(M) = 0 THEN [err |-> "ValueError", data |-> <<>>]
        ELSE [err  |-> "",
              data |-> [r \in 1..Len(M) |->
                         [j \in 1..Len(ValidCols(M)) |->
                           IF IsNaN(M[r][ValidCols(M)[j]])
                           THEN ImputeCell(M, r, ValidCols(M)[j], k)
                           ELSE M[r][ValidCols(M)[j]]]]]
        : M \in {X} } : TRUE

\* pd.DataFrame(imputed_data, index=..., columns=...): the shape must match.
MakeFrame(imputed, index, columns) ==
    IF imputed.err # "" THEN [err |-> imputed.err, frame |-> Frame(<<>>, <<>>, <<>>)]
    ELSE IF Len(imputed.data[1]) # Len(columns)
         THEN [err |-> "ValueError", frame |-> Frame(<<>>, <<>>, <<>>)]
         ELSE [err |-> "", frame |-> Frame(index, columns, imputed.data)]

(***************************************************************************)
(* 01_data_processing.py: parse_hgvs_pro and the string methods it calls.  *)
(***************************************************************************)
\* Whether text s holds old at position i.
StartsAt(s, i, old) ==
    /\ i + Len(old) - 1 <= Len(s)
    /\ SubSeq(s, i, i + Len(old) - 1) = old

\* str.replace(old, new): the non-overlapping occurrences, left to right.
RECURSIVE ReplaceFrom(_, _, _, _)
ReplaceFrom(s, old, new, i) ==
    IF i > Len(s) THEN <<>>
    ELSE IF StartsAt(s, i, old) THEN new \o ReplaceFrom(s, old, new, i + Len(old))
    ELSE <<s[i]>> \o ReplaceFrom(s, old, new, i + 1)

Replace(s, old, new) == ReplaceFrom(s, old, new, 1)

\* str.split(sep) for a one-character separator: always at least one piece.
RECURSIVE SplitFrom(_, _, _, _)
SplitFrom(s, sep, i, piece) ==
    IF i > Len(s) THEN <<piece>>
    ELSE IF s[i] = sep THEN <<piece>> \o SplitFrom(s, sep, i + 1, <<>>)
    ELSE SplitFrom(s, sep, i + 1, Append(piece, s[i]))

Split(s, sep) == SplitFrom(s, sep, 1, <<>>)

\* The characters str.strip() removes from a text of ASCII characters: the
\* blank, tab, line feed, carriage return, form feed, vertical tab and the four
\* separators 0x1c..0x1f.  (Text outside ASCII is not represented.)
Whitespace == {" ", "\t", "\n", "\r", "\f", "", "", "", "", ""}

RECURSIVE LStrip(_)
LStrip(s) == IF s # <<>> /\ Head(s) \in Whitespace THEN LStrip(Tail(s)) ELSE s

RECURSIVE RStrip(_)
RStrip(s) ==
    IF s # <<>> /\ s[Len(s)] \in Whitespace THEN RStrip(SubSeq(s, 1, Len(s) - 1)) ELSE s

\* str.strip()
Strip(s) == RStrip(LStrip(s))

\* 'p.='
Synonymous == <<"p", ".", "=">>

\* 'p.['
OpenMarkup == <<"p", ".", "[">>

\* ']'
CloseMarkup == <<"]">>

\* The members of a sequence of texts that are not empty, in order.
RECURSIVE NonEmpty(_)
NonEmpty(ts) ==
    IF ts = <<>> THEN <<>>
    ELSE (IF ts[1] # <<>> THEN <<ts[1]>> ELSE <<>>) \o NonEmpty(Tail(ts))

RECURSIVE StripAll(_)
StripAll(ts) == IF ts = <<>> THEN <<>> ELSE <<Strip(ts[1])>> \o StripAll(Tail(ts))

\* Variant: the tokens that are empty after trimming are kept.
ParseHgvsProKeepEmpty(h) ==
    IF h.absent \/ h.text = Synonymous THEN <<>>
    ELSE StripAll(Split(Replace(Replace(h.text, OpenMarkup, <<>>), CloseMarkup, <<>>), ";"))

\* parse_hgvs_pro(hgvs_string); h is [absent, text], absent for a missing value.
ParseHgvsPro(h) ==
    IF h.absent \/ h.text = Synonymous THEN <<>>
    ELSE NonEmpty(StripAll(
            Split(Replace(Replace(h.text, OpenMarkup, <<>>), CloseMarkup, <<>>), ";")))

(***************************************************************************)
(* 01_data_processing.py: process_mutations, calculate_z_scores and        *)
(* create_heatmap_data.  A data frame of records is a sequence of records. *)
(***************************************************************************)
\* Variant: one record for the first token only.
ExplodeRecordFirstToken(rec, toks) ==
    IF toks = <<>> THEN <<>>
    ELSE <<[experiment_id |-> rec.experiment_id, hgvs_pro |-> rec.hgvs_pro,
            score |-> rec.score, mutation |-> toks[1]]>>

\* df.explode('mutation_list') then dropna(subset=['mutation']): one record per
\* parsed token; a record with an empty list becomes a row without mutation, dropped.
RECURSIVE ExplodeRecord(_, _)
ExplodeRecord(rec, toks) ==
    IF toks = <<>> THEN <<>>
    ELSE <<[experiment_id |-> rec.experiment_id, hgvs_pro |-> rec.hgvs_pro,
            score |-> rec.score, mutation |-> toks[1]]>> \o ExplodeRecord(rec, Tail(toks))

RECURSIVE ProcessMutationsOf(_)
ProcessMutationsOf(recs) ==
    IF recs = <<>> THEN <<>>
    ELSE ExplodeRecord(recs[1], ParseHgvsPro(recs[1].hgvs_pro)) \o ProcessMutationsOf(Tail(recs))

\* Variant: every raw record counted once, by its first token.
GroupScoresOncePerRecord(recs, e) ==
    LET rows == SelectSeq(recs, LAMBDA r : /\ r.experiment_id = e
                                            /\ r.mutation = ParseHgvsPro(r.hgvs_pro)[1])
    IN  [i \in 1..Len(rows) |-> rows[i].score]

\* The scores of the records of one experiment, in order: one group of the groupby.
GroupScores(recs, e) ==
    LET rows == SelectSeq(recs, LAMBDA r : r.experiment_id = e)
    IN  [i \in 1..Len(rows) |-> rows[i].score]

RECURSIVE IntSum(_)
IntSum(xs) == IF xs = <<>> THEN 0 ELSE xs[1] + IntSum(Tail(xs))

RECURSIVE SquareSum(_)
SquareSum(xs) == IF xs = <<>> THEN 0 ELSE xs[1] * xs[1] + SquareSum(Tail(xs))

ZNaN == <<0, 0, NaN>>

\* Variant: a group without spread gets the z-score 0 instead of 0/0.
ZScoreZeroFill(x, xs) ==
    LET n == Len(xs)
        S == IntSum(xs)
        Q == n * SquareSum(xs) - S * S
    IN  IF n < 2 \/ Q = 0 THEN <<0, 1, RInt(1)>>
        ELSE <<n * x - S, 1, Rat(n - 1, n * Q)>>

\* Variant: the population std (ddof = 0), (n x - S) / sqrt(Q).
ZScorePopulation(x, xs) ==
    LET n == Len(xs)
        S == IntSum(xs)
        Q == n * SquareSum(xs) - S * S
    IN  IF n < 2 \/ Q = 0 THEN ZNaN
        ELSE <<n * x - S, 1, Rat(1, Q)>>

\* (x - x.mean()) / x.std() for member x of the group xs, std with ddof = 1:
\* (n x - S) * sqrt((n - 1) / (n Q)) with S the sum and Q = n * sum of squares - S^2.
\* A single score has std NaN; equal scores have std 0 and deviation 0, so 0/0.
ZScore(x, xs) ==
    LET n == Len(xs)
        S == IntSum(xs)
        Q == n * SquareSum(xs) - S * S
    IN  IF n < 2 \/ Q = 0 THEN ZNaN
        ELSE <<n * x - S, 1, Rat(n - 1, n * Q)>>

\* df['z_score'] = df.groupby('experiment_id')['score'].transform(...)
CalculateZScoresOf(recs) ==
    [i \in 1..Len(recs) |->
        [experiment_id |-> recs[i].experiment_id, hgvs_pro |-> recs[i].hgvs_pro,
         score |-> recs[i].score, mutation |-> recs[i].mutation,
         z_score |-> ZScore(recs[i].score, GroupScores(recs, recs[i].experiment_id))]]

\* Code point of a character: the order Python and pandas sort text by.
Ord(c) ==
    CASE c = " " -> 32 [] c = "." -> 46 [] c = "1" -> 49 [] c = "2" -> 50
      [] c = ";" -> 59 [] c = "=" -> 61 [] c = "A" -> 65 [] c = "B" -> 66
      [] c = "C" -> 67 [] c = "[" -> 91 [] c = "]" -> 93 [] c = "e" -> 101
      [] c = "p" -> 112

\* a < b for texts.
RECURSIVE TextLess(_, _)
TextLess(a, b) ==
    IF b = <<>> THEN FALSE
    ELSE IF a = <<>> THEN TRUE
    ELSE IF a[1] # b[1] THEN Ord(a[1]) < Ord(b[1])
    ELSE TextLess(Tail(a), Tail(b))

\* The members of a finite set of texts in ascending order.
RECURSIVE SortedTexts(_)
SortedTexts(S) ==
    IF S = {} THEN <<>>
    ELSE LET m == CHOOSE x \in S : \A y \in S \ {x} : TextLess(x, y)
         IN  <<m>> \o SortedTexts(S \ {m})

\* Variant: the first defined z-score of the group (aggfunc='first').
GroupFirst(zs) ==
    LET ok == Present(zs)
    IN  IF ok = <<>> THEN ZNaN ELSE ok[1]

\* Mean of the z-scores of a group, undefined ones skipped; the z-scores of a
\* group share their experiment, hence their radical.
GroupMean(zs) ==
    LET ok == Present(zs)
    IN  IF ok = <<>> THEN ZNaN
        ELSE LET c == RMean([i \in 1..Len(ok) |-> <<ok[i][1], ok[i][2]>>])
             IN  <<c[1], c[2], ok[1][3]>>

\* The aggregated value of the group (mutation m, experiment e); ZNaN without record.
CellOf(recs, m, e) ==
    LET rows == SelectSeq(recs, LAMBDA r : r.mutation = m /\ r.experiment_id = e)
    IN  GroupMean([i \in 1..Len(rows) |-> rows[i].z_score])

\* df.pivot_table(index='mutation', columns='experiment_id', values='z_score',
\* aggfunc='mean') with its default dropna=True: the groups whose mean is undefined
\* are dropped before the table is laid out, rows and columns in ascending order.
PivotTable(recs) ==
    LET groups == { <<recs[i].mutation, recs[i].experiment_id>> : i \in 1..Len(recs) }
        kept   == { g \in groups : ~IsNaN(CellOf(recs, g[1], g[2])) }
        index  == SortedTexts({ g[1] : g \in kept })
        cols   == SortedTexts({ g[2] : g \in kept })
    IN  Frame(index, cols,
              [r \in 1..Len(index) |-> [c \in 1..Len(cols) |->
                  IF <<index[r], cols[c]>> \in kept THEN CellOf(recs, index[r], cols[c])
                  ELSE ZNaN]])

(***************************************************************************)
(* 02_data_validation.py                                                   *)
(***************************************************************************)
\* The hard-coded coverage threshold (mutation_coverage >= 5).
CoverageThreshold == 5

\* count / size * 100 as numpy divides: 0 / 0 is NaN (a warning, no exception).
CoveragePct(f) == RMul(RDiv(RInt(CountSum(f.data)), RInt(NRows(f) * NCols(f))), RInt(100))

\* mutation_coverage >= 5
WellCoveredMask(f) == [r \in 1..NRows(f) |-> RowCount(f.data[r]) >= CoverageThreshold]

\* analyze_data_coverage(df): <<well_covered_df, coverage_stats>>.  The function
\* takes the frame only; the threshold is not among its parameters.
AnalyzeCoverage(f) ==
    LET wc == RowSubset(f, WellCoveredMask(f))
    IN  <<wc, [total_mutations        |-> NRows(f),
               well_covered_mutations |-> NRows(wc),
               total_coverage         |-> CoveragePct(f),
               well_covered_coverage  |-> CoveragePct(wc)]>>

\* numpy's legacy global generator (MT19937 seeded by np.random.seed(s)): for the
\* seeds 0..5, the 0-based positions among the first DrawTableLen doubles of
\* np.random.random that are below 0.2.
DrawTableLen == 48

DrawsBelow ==
    << {14, 15, 16, 24, 26, 34, 43, 47},
       {2, 4, 5, 6, 14, 18, 19, 26, 27, 28, 30, 38, 44},
       {1, 12, 14, 19, 21, 23, 24, 27, 38},
       {6, 8, 10, 16, 23, 35},
       {7, 11, 14, 16, 18, 24, 25, 27, 33, 34, 43},
       {9, 10, 13, 25, 26, 29, 30, 34, 36, 44} >>

\* Whether draw number i of the stream seeded `seed` is below 0.2.  Frames of the
\* model have at most DrawTableLen cells, so a seeded fold never reads past the table.
DrawBelow(seed, i) == (i % DrawTableLen) \in DrawsBelow[seed + 1]

\* Variant: the fold does not reseed; the generator goes on from where it is.
SeedFoldKeep(g, s) == g

\* np.random.seed(split): the generator restarts the stream of that seed.
SeedFold(g, s) == [seed |-> s, pos |-> 0]

\* np.random.random(df.shape) < 0.2, row-major from the generator's position.
RandomMask(g, nr, nc) ==
    {rc \in (1..nr) \X (1..nc) : DrawBelow(g.seed, g.pos + (rc[1] - 1) * nc + (rc[2] - 1))}

Advance(g, n) == [seed |-> g.seed, pos |-> g.pos + n]

\* known_mask = ~df.isnull()
KnownCells(f) == {rc \in (1..NRows(f)) \X (1..NCols(f)) : ~IsNaN(f.data[rc[1]][rc[2]])}

\* test_data[hide_mask] = np.nan
HideCells(data, hidden) ==
    [r \in 1..Len(data) |->
      [c \in 1..Len(data[r]) |-> IF <<r, c>> \in hidden THEN NaN ELSE data[r][c]]]

\* Variant: the cells are hidden in the caller's frame itself (no copy).
HideInPlace(data, hidden) ==
    [test_data |-> HideCells(data, hidden), df |-> HideCells(data, hidden)]

\* test_data = df.copy(); test_data[hide_mask] = np.nan: the cells of the copy
\* and of the caller's frame after the assignment.
HideInCopy(data, hidden) ==
    [test_data |-> HideCells(data, hidden), df |-> data]

\* The cells of an nr x nc frame, row-major.
RECURSIVE CellSeq(_, _, _)
CellSeq(nr, nc, i) ==
    IF i >= nr * nc THEN <<>>
    ELSE <<(<<(i \div nc) + 1, (i % nc) + 1>>)>> \o CellSeq(nr, nc, i + 1)

\* true_values[valid_mask], predicted_values[valid_mask]: the hidden cells where
\* neither the true nor the imputed value is NaN.
ValidPairs(truth, pred, hidden) ==
    LET cells == SelectSeq(CellSeq(Len(truth), Len(truth[1]), 0),
                           LAMBDA rc : rc \in hidden /\ ~IsNaN(truth[rc[1]][rc[2]])
                                       /\ ~IsNaN(pred[rc[1]][rc[2]]))
    IN  [i \in 1..Len(cells) |->
          [t |-> truth[cells[i][1]][cells[i][2]], p |-> pred[cells[i][1]][cells[i][2]],
           cell |-> cells[i]]]

SqErr(pair) == RMul(RSub(pair.t, pair.p), RSub(pair.t, pair.p))

\* sklearn.metrics.mean_squared_error
MeanSquaredError(pairs) == RMean([i \in 1..Len(pairs) |-> SqErr(pairs[i])])

\* sklearn.metrics.r2_score: NaN below two samples; with a constant truth, 1 for a
\* perfect prediction and 0 otherwise.
R2Score(pairs) ==
    LET n     == Len(pairs)
        tmean == RMean([i \in 1..n |-> pairs[i].t])
        num   == RSum([i \in 1..n |-> SqErr(pairs[i])])
        den   == RSum([i \in 1..n |-> RMul(RSub(pairs[i].t, tmean), RSub(pairs[i].t, tmean))])
    IN  IF n < 2 THEN NaN
        ELSE IF den # RInt(0) THEN RSub(RInt(1), RDiv(num, den))
        ELSE IF num # RInt(0) THEN RInt(0)
        ELSE RInt(1)

\* Variant: the fold's seed depends on the neighbour count as well.
FoldBodySeededByCandidate(f, k, s, g) ==
    LET g1      == SeedFold(g, (s + k) % Len(DrawsBelow))
        hidden  == RandomMask(g1, NRows(f), NCols(f)) \cap KnownCells(f)
        hide    == HideInCopy(f.data, hidden)
        made    == MakeFrame(KNNImpute(hide.test_data, k), f.index, f.columns)
        pairs   == ValidPairs(hide.df, made.frame.data, hidden)
        scored  == made.err = "" /\ NRows(f) > 0 /\ Len(pairs) > 0
    IN  [err    |-> made.err,
         hidden |-> hidden,
         scored |-> scored,
         pairs  |-> IF scored THEN pairs ELSE <<>>,
         mse    |-> IF scored THEN MeanSquaredError(pairs) ELSE NaN,
         r2     |-> IF scored THEN R2Score(pairs) ELSE NaN,
         df     |-> Frame(f.index, f.columns, hide.df),
         rng    |-> Advance(g1, NRows(f) * NCols(f))]

\* One pass of the body of `for split in range(n_splits)` for neighbour count k,
\* the generator being in state g on entry: [err, hidden, scored, pairs, mse, r2,
\* df, rng], df being the caller's frame after the fold.
FoldBody(f, k, s, g) ==
    LET g1      == SeedFold(g, s)
        hidden  == RandomMask(g1, NRows(f), NCols(f)) \cap KnownCells(f)
        hide    == HideInCopy(f.data, hidden)
        test    == hide.test_data
        made    == MakeFrame(KNNImpute(test, k), f.index, f.columns)
        pairs   == ValidPairs(hide.df, made.frame.data, hidden)
        scored  == made.err = "" /\ NRows(f) > 0 /\ Len(pairs) > 0
    IN  [err    |-> made.err,
         hidden |-> hidden,
         scored |-> scored,
         pairs  |-> IF scored THEN pairs ELSE <<>>,
         mse    |-> IF scored THEN MeanSquaredError(pairs) ELSE NaN,
         r2     |-> IF scored THEN R2Score(pairs) ELSE NaN,
         df     |-> Frame(f.index, f.columns, hide.df),
         rng    |-> Advance(g1, NRows(f) * NCols(f))]

\* Variant: a later entry replaces the best on an equal error too.
RECURSIVE MinByMseLast(_, _, _)
MinByMseLast(results, i, best) ==
    IF i > Len(results) THEN results[best]
    ELSE MinByMseLast(results, i + 1, IF RLeq(results[i].mse, results[best].mse) THEN i ELSE best)

\* min(validation_results, key=lambda x: x['mse']): the first entry no later
\* entry is strictly below.
RECURSIVE MinByMse(_, _, _)
MinByMse(results, i, best) ==
    IF i > Len(results) THEN results[best]
    ELSE MinByMse(results, i + 1, IF RLess(results[i].mse, results[best].mse) THEN i ELSE best)

NoResult == [n_neighbors |-> 0, mse |-> NaN, r2 |-> NaN]

(***************************************************************************)
(* 03_imputation.py and 04_analysis.py                                     *)
(***************************************************************************)
\* perform_knn_imputation(df, n_neighbors): [err, frame].
PerformKnn(f, k) ==
    LET wc == RowSubset(f, WellCoveredMask(f))
    IN  MakeFrame(KNNImpute(wc.data, k), wc.index, wc.columns)

\* The inner bin edges of pd.cut's bins [-inf, -1, -0.5, 0.5, 1, inf].
BinEdges == <<RInt(-1), Rat(-1, 2), Rat(1, 2), RInt(1)>>

Labels == <<"Strong Deleterious", "Deleterious", "Neutral", "Beneficial", "Strong Beneficial">>

\* Variant: bins closed on the left (pd.cut(..., right=False)).
PastEdgeLeftClosed(m, e) == RLeq(e, m)

\* Whether value m lies beyond edge e, so that it belongs to a later bin.  pd.cut
\* is called with its default right=True: a bin holds its right edge.
PastEdge(m, e) == RLess(e, m)

\* Variant: bins without the infinite ends, bins=[-1, -0.5, 0.5, 1] with the three
\* inner labels: a value outside (-1, 1] gets no label.
CutFiniteBins(m) ==
    IF IsNaN(m) \/ ~PastEdge(m, BinEdges[1]) \/ PastEdge(m, BinEdges[4]) THEN "NaN"
    ELSE Labels[1 + Cardinality({i \in 1..Len(BinEdges) : PastEdge(m, BinEdges[i])})]

\* pd.cut(mean_effects, bins, labels): the label of one value; NaN gets none.
Cut(m) ==
    IF IsNaN(m) THEN "NaN"
    ELSE Labels[1 + Cardinality({i \in 1..Len(BinEdges) : PastEdge(m, BinEdges[i])})]

\* df.mean(axis=1) of one row: the mean of its present cells.
RowMean(row) == IF Present(row) = <<>> THEN NaN ELSE RMean(Present(row))

\* Variant: the population variance (ddof = 0).
RowVarPopulation(row) ==
    LET xs == Present(row)
        m  == RMean(xs)
        d  == [i \in 1..Len(xs) |-> RMul(RSub(xs[i], m), RSub(xs[i], m))]
    IN  IF Len(xs) < 2 THEN NaN ELSE RDiv(RSum(d), RInt(Len(xs)))

\* Sample variance (ddof = 1) of the present cells of a row; NaN below two cells.
RowVar(row) ==
    LET xs == Present(row)
        m  == RMean(xs)
        d  == [i \in 1..Len(xs) |-> RMul(RSub(xs[i], m), RSub(xs[i], m))]
    IN  IF Len(xs) < 2 THEN NaN ELSE RDiv(RSum(d), RInt(Len(xs) - 1))

\* df.std(axis=1) of one row, the square root of its sample variance.
RowStd(row) ==
    LET v == RowVar(row)
    IN  IF IsNaN(v) THEN <<0, 0, NaN>>
        ELSE IF v = RInt(0) THEN <<0, 1, RInt(1)>>
        ELSE <<1, 1, v>>

\* Numbers a + b * sqrt(v) with a, b rational and v a rational >= 0 are <<a, b, v>>.
RSign(x) == IF x[1] > 0 THEN 1 ELSE IF x[1] < 0 THEN -1 ELSE 0

\* The sign of a + b * sqrt(v).
QSign(q) ==
    LET sa == RSign(q[1])
        sb == IF RSign(q[3]) = 0 THEN 0 ELSE RSign(q[2])
        a2 == RMul(q[1], q[1])
        b2 == RMul(RMul(q[2], q[2]), q[3])
    IN  IF sb = 0 THEN sa
        ELSE IF sa = 0 \/ sa = sb THEN sb
        ELSE IF RLess(b2, a2) THEN sa
        ELSE IF RLess(a2, b2) THEN sb
        ELSE 0

QNaN == <<NaN, NaN, NaN>>

\* 1 / (1 + std) for a std c * sqrt(v): (1 - c sqrt(v)) / (1 - c^2 v), and 1/2
\* where the std is 1.
Consistency(sd) ==
    IF IsNaN(sd) THEN QNaN
    ELSE LET c == <<sd[1], sd[2]>>
             d == RSub(RInt(1), RMul(RMul(c, c), sd[3]))
         IN  IF d = RInt(0) THEN <<Rat(1, 2), RInt(0), sd[3]>>
             ELSE <<RDiv(RInt(1), d), RDiv(RSub(RInt(0), c), d), sd[3]>>

\* consistency_scores >= 0.7; False for NaN.
HighConsistency(score) ==
    /\ ~IsNaN(score[1])
    /\ QSign(<<RSub(score[1], Rat(7, 10)), score[2], score[3]>>) >= 0

\* categorize_mutations(df): one summary row per row of the frame.
Categorize(f) ==
    [r \in 1..NRows(f) |->
      [mutation          |-> f.index[r],
       mean_effect       |-> RowMean(f.data[r]),
       std_effect        |-> RowStd(f.data[r]),
       consistency_score |-> Consistency(RowStd(f.data[r])),
       effect_category   |-> Cut(RowMean(f.data[r])),
       high_consistency  |-> HighConsistency(Consistency(RowStd(f.data[r])))]]

\* The square of a std value c * sqrt(v), and the order of two of them.
StdSquare(sd) == RMul(RMul(<<sd[1], sd[2]>>, <<sd[1], sd[2]>>), sd[3])

StdLess(x, y) == ~IsNaN(x) /\ ~IsNaN(y) /\ RLess(StdSquare(x), StdSquare(y))

\* The square of the std s a consistency score 1 / (1 + s) was computed from,
\* and the order of two scores: the score falls as s grows.
ScoreStdSquare(c) ==
    IF RSign(c[2]) # 0 THEN c[3]
    ELSE LET s == RSub(RDiv(RInt(1), c[1]), RInt(1)) IN RMul(s, s)

ScoreLess(x, y) ==
    ~IsNaN(x[1]) /\ ~IsNaN(y[1]) /\ RLess(ScoreStdSquare(y), ScoreStdSquare(x))

\* Rank of every row under a key: the number of rows with a strictly smaller key.
MeanRanks(res) ==
    [i \in 1..Len(res) |->
        Cardinality({ j \in 1..Len(res) : RLess(res[j].mean_effect, res[i].mean_effect) })]

StdRanks(res) ==
    [i \in 1..Len(res) |->
        Cardinality({ j \in 1..Len(res) : StdLess(res[j].std_effect, res[i].std_effect) })]

ScoreRanks(res) ==
    [i \in 1..Len(res) |->
        Cardinality({ j \in 1..Len(res) :
                        ScoreLess(res[j].consistency_score, res[i].consistency_score) })]

\* The positions of S in ascending order of the distinct integers key[i].
RECURSIVE SortByKey(_, _)
SortByKey(S, key) ==
    IF S = {} THEN <<>>
    ELSE LET m == CHOOSE i \in S : \A j \in S : key[i] <= key[j]
         IN  <<m>> \o SortByKey(S \ {m}, key)

\* numpy's argsort(kind='quicksort') of at most eight 64-bit keys depends on the
\* build.  The scalar build sorts a partition of 16 keys or fewer by insertion,
\* which keeps equal keys in place.  The AVX-512 build loads the keys into the
\* eight lanes of one vector, the free lanes holding a key above all others, and
\* runs a bitonic network of six compare-exchange stages over the lanes.
NumpyBuilds == {"scalar", "avx512"}

\* The stages of the network: the lane each lane is compared with, and the lanes
\* that keep the larger key of the two.
NetworkStages ==
    << [partner |-> <<2, 1, 4, 3, 6, 5, 8, 7>>, high |-> {2, 4, 6, 8}],
       [partner |-> <<4, 3, 2, 1, 8, 7, 6, 5>>, high |-> {3, 4, 7, 8}],
       [partner |-> <<2, 1, 4, 3, 6, 5, 8, 7>>, high |-> {2, 4, 6, 8}],
       [partner |-> <<8, 7, 6, 5, 4, 3, 2, 1>>, high |-> {5, 6, 7, 8}],
       [partner |-> <<3, 4, 1, 2, 7, 8, 5, 6>>, high |-> {3, 4, 7, 8}],
       [partner |-> <<2, 1, 4, 3, 6, 5, 8, 7>>, high |-> {2, 4, 6, 8}] >>

\* One stage: a lane keeps the smaller or the larger key of the pair, and with it
\* its own position when the key kept equals its own key, the other lane's
\* position otherwise.
CompareExchange(lanes, stage) ==
    CHOOSE out \in { [i \in 1..8 |->
                        LET own   == v[i]
                            other == v[stage.partner[i]]
                            low   == IF other.key < own.key THEN other.key ELSE own.key
                            top   == IF other.key > own.key THEN other.key ELSE own.key
                            kept  == IF i \in stage.high THEN top ELSE low
                        IN  [key |-> kept,
                             pos |-> IF kept = own.key THEN own.pos ELSE other.pos]]
                     : v \in {lanes} } : TRUE

RECURSIVE RunNetwork(_, _)
RunNetwork(lanes, s) ==
    IF s > Len(NetworkStages) THEN lanes
    ELSE RunNetwork(CompareExchange(lanes, NetworkStages[s]), s + 1)

\* The positions of at most eight keys in the order the network leaves them in.
NetworkArgsort(keys) ==
    LET n     == Len(keys)
        above == 1 + IntSum([i \in 1..n |-> Abs(keys[i])])
        lanes == [i \in 1..8 |-> IF i <= n THEN [key |-> keys[i], pos |-> i]
                                 ELSE [key |-> above, pos |-> 0]]
    IN  CHOOSE order \in { [i \in 1..n |-> out[i].pos] : out \in {RunNetwork(lanes, 1)} } : TRUE

\* ndarray.argsort(kind='quicksort') of at most eight keys on a build.
Argsort(keys, build) ==
    IF build = "avx512" THEN NetworkArgsort(keys)
    ELSE SortByKey(1..Len(keys), [i \in 1..Len(keys) |-> keys[i] * (Len(keys) + 1) + i])

\* Series.sort_values(ascending) of keys without NaN (nargsort): the row
\* positions in sorted order.  A descending sort reverses the keys, sorts them
\* ascending and reverses the result.
SortValues(keys, ascending, build) ==
    LET N     == Len(keys)
        items == [i \in 1..N |-> keys[N + 1 - i]]
    IN  IF ascending THEN Argsort(keys, build)
        ELSE CHOOSE rows \in { [i \in 1..N |-> N + 1 - order[N + 1 - i]] :
                                order \in {Argsort(items, build)} } : TRUE

\* Variant: the later row first among equal keys (keep='last').
NSelectLast(ranks, n, largest, build) ==
    LET N     == Len(ranks)
        key   == [i \in 1..N |->
                    (IF largest THEN N - ranks[i] ELSE ranks[i]) * (N + 1) + (N + 1 - i)]
        order == SortByKey(1..N, key)
    IN  SubSeq(order, 1, IF n < N THEN n ELSE N)

\* Series.nsmallest / nlargest (n, keep='first'): the row positions selected, in
\* output order.  With n below the number of rows pandas selects with a stable
\* merge sort: equal keys stay in row order and the earlier rows make the cut.
\* With n at or above the number of rows it returns sort_values(...).head(n),
\* whose default sort is numpy's quicksort: the order of equal keys is the one
\* the numpy build leaves.
NSelect(ranks, n, largest, build) ==
    LET N     == Len(ranks)
        key   == [i \in 1..N |->
                    (IF largest THEN N - ranks[i] ELSE ranks[i]) * (N + 1) + i]
    IN  IF n < N THEN SubSeq(SortByKey(1..N, key), 1, n)
        ELSE SortValues(ranks, ~largest, build)

\* The selected rows, cut down to the listed columns.
WithConsistency(res, sel) ==
    [i \in 1..Len(sel) |->
        [row |-> sel[i], mutation |-> res[sel[i]].mutation,
         mean_effect |-> res[sel[i]].mean_effect,
         consistency_score |-> res[sel[i]].consistency_score]]

WithStd(res, sel) ==
    [i \in 1..Len(sel) |->
        [row |-> sel[i], mutation |-> res[sel[i]].mutation,
         mean_effect |-> res[sel[i]].mean_effect,
         std_effect |-> res[sel[i]].std_effect]]

\* identify_significant_mutations(results_df, n_top); row is the position of the
\* entry's row in results_df.
Identify(res, n, build) ==
    [most_deleterious |-> WithConsistency(res, NSelect(MeanRanks(res), n, FALSE, build)),
     most_beneficial  |-> WithConsistency(res, NSelect(MeanRanks(res), n, TRUE, build)),
     most_variable    |-> WithStd(res, NSelect(StdRanks(res), n, TRUE, build)),
     most_consistent  |-> WithConsistency(res, NSelect(ScoreRanks(res), n, TRUE, build))]

(***************************************************************************)
(* Inputs of the matrix stages: effect matrices over six experiments, rows *)
(* drawn from a pool of full rows, rows with one gap and a sparse row.     *)
(***************************************************************************)
MaxRows == 3

MaxSplits == 2

MaxRuns == 2

ExperimentIds == <<"e1", "e2", "e3", "e4", "e5", "e6">>

MutationIds == <<"M1", "M2", "M3", "M4", "M5", "M6">>

RowPool ==
    { <<RInt(0), RInt(1), RInt(0), RInt(1), RInt(0), RInt(1)>>,
      <<RInt(-1), RInt(0), NaN, RInt(0), RInt(-1), RInt(0)>>,
      <<RInt(1), NaN, RInt(1), RInt(2), RInt(1), RInt(1)>>,
      <<NaN, RInt(2), RInt(2), NaN, NaN, NaN>>,
      <<RInt(2), NaN, NaN, RInt(1), RInt(1), RInt(2)>> }

\* For the summary stage, rows whose means lie on the category edges 1 and -1 as well.
SummaryPool ==
    RowPool \cup { <<RInt(2), RInt(1), RInt(2), RInt(0), RInt(1), RInt(0)>>,
                   <<RInt(-1), RInt(-1), RInt(-1), RInt(-1), RInt(-1), RInt(-1)>> }

\* A pivot table has no empty column: every experiment has a present value.
NoEmptyColumn(data) == \A c \in 1..Len(data[1]) : \E r \in 1..Len(data) : ~IsNaN(data[r][c])

FrameOf(data, columns) == Frame(SubSeq(MutationIds, 1, Len(data)), columns, data)

MatricesOver(pool) ==
    { FrameOf(data, ExperimentIds) :
        data \in { d \in UNION { [1..n -> pool] : n \in 1..MaxRows } : NoEmptyColumn(d) } }

EffectMatrices == MatricesOver(RowPool)

\* Candidate lists handed to validate_knn_imputation; the last is its default.
CandidateLists == { <<1, 2>>, <<2, 1>>, <<3, 5, 7, 10>> }

\* Thresholds a caller may want; 5 is the documented default.
RequestedThresholds == {2, 5}

\* The global generator before the first call: seeded elsewhere, somewhere in a stream.
InitialRng == { [seed |-> 5, pos |-> 9] }

NoFrame == Frame(<<>>, <<>>, <<>>)

NoStats == [total_mutations |-> 0, well_covered_mutations |-> 0,
            total_coverage |-> NaN, well_covered_coverage |-> NaN]

NoOutcome == [status |-> "none", best |-> NoResult, table |-> <<>>]

NoText == [absent |-> TRUE, text |-> <<>>]

NoArgs == [steps |-> <<>>, cleanup |-> FALSE]

NoRanking == [most_deleterious |-> <<>>, most_beneficial |-> <<>>,
              most_variable |-> <<>>, most_consistent |-> <<>>]

\* Values of the variables a stage does not use.
IdleParse == hgvs_string = NoText /\ mutations = <<>>
IdleAsm   == /\ raw_df = <<>> /\ df_processed = <<>> /\ df_scored = <<>>
             /\ heatmap_data = NoFrame /\ stdout = <<>>
IdleCov   == well_covered_df = NoFrame /\ coverage_stats = NoStats
IdleVal   == /\ n_neighbors_list = <<>> /\ n_splits = 0 /\ cand = 0 /\ split = 0
             /\ rng = [seed |-> 0, pos |-> 0]
             /\ mse_scores = <<>> /\ r2_scores = <<>> /\ validation_results = <<>>
             /\ fold_log = <<>> /\ best_result = NoResult /\ run = 0
             /\ prev_outcome = NoOutcome
IdleRank  == n_top = 0 /\ significant_mutations = NoRanking
IdleImp   == n_neighbors = 0 /\ imputed_df = NoFrame /\ results_df = <<>> /\ IdleRank
IdleRun   == /\ args = NoArgs /\ files = {} /\ steps_to_run = <<>> /\ step_index = 0
             /\ success_count = 0 /\ run_step_calls = <<>> /\ console = <<>>

(***************************************************************************)
(* 02_data_validation.py, main: coverage analysis, then cross-validation   *)
(* of the candidates on the well-covered rows.                             *)
(***************************************************************************)
Init ==
    /\ pc = "coverage"
    /\ df \in EffectMatrices
    /\ well_covered_df = NoFrame
    /\ coverage_stats = NoStats
    /\ n_neighbors_list \in CandidateLists
    /\ n_splits \in 1..MaxSplits
    /\ cand = 0 /\ split = 0
    /\ rng \in InitialRng
    /\ mse_scores = <<>> /\ r2_scores = <<>> /\ validation_results = <<>>
    /\ fold_log = <<>>
    /\ best_result = NoResult
    /\ run = 1
    /\ prev_outcome = NoOutcome
    /\ IdleParse /\ IdleAsm /\ IdleImp /\ IdleRun

\* well_covered_df, coverage_stats = analyze_data_coverage(df)
AnalyzeDataCoverage ==
    /\ pc = "coverage"
    /\ well_covered_df' = AnalyzeCoverage(df)[1]
    /\ coverage_stats' = AnalyzeCoverage(df)[2]
    /\ pc' = "validate"
    /\ UNCHANGED <<df, runVars, parseVars, asmVars, valVars, impVars>>

\* validate_knn_imputation(well_covered_df, ...) up to its first loop.
ValidateBegin ==
    /\ pc = "validate"
    /\ validation_results' = <<>>
    /\ cand' = 1 /\ split' = 0
    /\ mse_scores' = <<>> /\ r2_scores' = <<>>
    /\ fold_log' = <<>>
    /\ best_result' = NoResult
    /\ pc' = "fold"
    /\ UNCHANGED <<df, runVars, parseVars, asmVars, covVars, impVars, n_neighbors_list, n_splits,
                   rng, run, prev_outcome>>

\* One fold of the current candidate; an exception of the imputer or of the frame
\* constructor ends the call.
ValidateFold ==
    /\ pc = "fold"
    /\ cand <= Len(n_neighbors_list)
    /\ split < n_splits
    /\ LET fold == FoldBody(well_covered_df, n_neighbors_list[cand], split, rng)
       IN  /\ rng' = fold.rng
           /\ well_covered_df' = fold.df
           /\ fold_log' = Append(fold_log, [n_neighbors |-> n_neighbors_list[cand],
                                            split |-> split, hidden |-> fold.hidden,
                                            pairs |-> fold.pairs])
           /\ IF fold.err # ""
              THEN /\ pc' = "error"
                   /\ UNCHANGED <<mse_scores, r2_scores, split>>
              ELSE /\ pc' = "fold"
                   /\ split' = split + 1
                   /\ mse_scores' = IF fold.scored THEN Append(mse_scores, fold.mse)
                                    ELSE mse_scores
                   /\ r2_scores' = IF fold.scored THEN Append(r2_scores, fold.r2)
                                   ELSE r2_scores
    /\ UNCHANGED <<df, runVars, parseVars, asmVars, coverage_stats, impVars, n_neighbors_list,
                   n_splits, cand, validation_results, best_result, run, prev_outcome>>

\* After the folds of a candidate: its averages join the table if it scored at all.
ValidateCandidate ==
    /\ pc = "fold"
    /\ cand <= Len(n_neighbors_list)
    /\ split = n_splits
    /\ validation_results' =
         IF mse_scores # <<>>
         THEN Append(validation_results, [n_neighbors |-> n_neighbors_list[cand],
                                          mse |-> RMean(mse_scores),
                                          r2  |-> RMean(r2_scores)])
         ELSE validation_results
    /\ cand' = cand + 1 /\ split' = 0
    /\ mse_scores' = <<>> /\ r2_scores' = <<>>
    /\ UNCHANGED <<pc, df, runVars, parseVars, asmVars, covVars, impVars, n_neighbors_list, n_splits,
                   rng, fold_log, best_result, run, prev_outcome>>

\* Variant: an empty table silently falls back to the default neighbour count.
SelectBestOrDefault(results) ==
    IF results = <<>> THEN [err |-> "", best |-> [n_neighbors |-> 5, mse |-> NaN, r2 |-> NaN]]
    ELSE [err |-> "", best |-> MinByMse(results, 2, 1)]

\* best_result = min(validation_results, ...); min of an empty list raises.
SelectBest(results) ==
    IF results = <<>> THEN [err |-> "ValueError", best |-> NoResult]
    ELSE [err |-> "", best |-> MinByMse(results, 2, 1)]

ValidateSelect ==
    /\ pc = "fold"
    /\ cand > Len(n_neighbors_list)
    /\ best_result' = SelectBest(validation_results).best
    /\ pc' = IF SelectBest(validation_results).err # "" THEN "error" ELSE "validated"
    /\ UNCHANGED <<df, runVars, parseVars, asmVars, covVars, impVars, n_neighbors_list, n_splits,
                   cand, split, rng, mse_scores, r2_scores, validation_results,
                   fold_log, run, prev_outcome>>

Outcome == [status |-> pc, best |-> best_result, table |-> validation_results]

\* The same call made again on the same frame, the generator left where it is.
Revalidate ==
    /\ pc \in {"validated", "error"}
    /\ run < MaxRuns
    /\ prev_outcome' = Outcome
    /\ run' = run + 1
    /\ pc' = "validate"
    /\ UNCHANGED <<df, runVars, parseVars, asmVars, covVars, impVars, n_neighbors_list, n_splits,
                   cand, split, rng, mse_scores, r2_scores, validation_results,
                   fold_log, best_result>>

Next ==
    \/ AnalyzeDataCoverage
    \/ ValidateBegin
    \/ ValidateFold
    \/ ValidateCandidate
    \/ ValidateSelect
    \/ Revalidate

Spec == Init /\ [][Next]_vars

(***************************************************************************)
(* 03_imputation.py and 04_analysis.py, main: imputation of the effect     *)
(* matrix, then the summary of the dense matrix.                           *)
(***************************************************************************)
\* Complete matrices over the first three and the first five experiments.
NarrowWidths == {3, 5}

NarrowPool(w) == { SubSeq(row, 1, w) : row \in { r \in SummaryPool : RowCount(r) = Len(r) } }

NarrowMatrices ==
    UNION { { FrameOf(data, SubSeq(ExperimentIds, 1, w)) :
                data \in UNION { [1..n -> NarrowPool(w)] : n \in 1..MaxRows } } :
            w \in NarrowWidths }

NeighborChoices == {1, 2, 5}

InitImpute ==
    /\ pc = "impute"
    /\ df \in MatricesOver(SummaryPool) \cup NarrowMatrices
    /\ n_neighbors \in NeighborChoices
    /\ imputed_df = NoFrame
    /\ results_df = <<>>
    /\ IdleRank
    /\ IdleParse /\ IdleAsm /\ IdleCov /\ IdleVal /\ IdleRun

\* imputed_df = perform_knn_imputation(df, best_n_neighbors)
PerformKnnImputation ==
    /\ pc = "impute"
    /\ LET out == PerformKnn(df, n_neighbors)
       IN  /\ imputed_df' = out.frame
           /\ pc' = IF out.err # "" THEN "error" ELSE "imputed"
    /\ UNCHANGED <<df, runVars, parseVars, asmVars, covVars, valVars, n_neighbors, results_df, n_top,
                   significant_mutations>>

\* results_df = categorize_mutations(imputed_df)
CategorizeMutations ==
    /\ pc = "imputed"
    /\ results_df' = Categorize(imputed_df)
    /\ pc' = "analysed"
    /\ UNCHANGED <<df, runVars, parseVars, asmVars, covVars, valVars, n_neighbors, imputed_df, n_top,
                   significant_mutations>>

NextImpute == PerformKnnImputation \/ CategorizeMutations

SpecImpute == InitImpute /\ [][NextImpute]_vars

\* The same call on matrices of ten experiments, where two well-covered rows can
\* be without a common experiment.
WideExperimentIds == <<"e1", "e2", "e3", "e4", "e5", "e6", "e7", "e8", "e9", "e10">>

WidePool ==
    { <<RInt(0), RInt(1), RInt(0), RInt(1), RInt(0), NaN, NaN, NaN, NaN, NaN>>,
      <<NaN, NaN, NaN, NaN, NaN, RInt(1), RInt(2), RInt(1), RInt(2), RInt(1)>>,
      <<RInt(0), RInt(0), RInt(1), RInt(1), RInt(2), RInt(2), RInt(0), RInt(0), RInt(1), RInt(1)>>,
      <<RInt(1), RInt(1), RInt(1), RInt(0), RInt(0), RInt(0), RInt(1), NaN, NaN, NaN>>,
      <<RInt(2), RInt(0), RInt(2), RInt(0), RInt(2), RInt(0), RInt(2), RInt(0), RInt(2), RInt(0)>> }

WideMatrices ==
    { FrameOf(data, WideExperimentIds) :
        data \in { d \in UNION { [1..n -> WidePool] : n \in 1..MaxRows } : NoEmptyColumn(d) } }

WideNeighborChoices == {1, 2, 3}

InitImputeWide ==
    /\ pc = "impute"
    /\ df \in WideMatrices
    /\ n_neighbors \in WideNeighborChoices
    /\ imputed_df = NoFrame
    /\ results_df = <<>>
    /\ IdleRank
    /\ IdleParse /\ IdleAsm /\ IdleCov /\ IdleVal /\ IdleRun

SpecImputeWide == InitImputeWide /\ [][PerformKnnImputation]_vars

(***************************************************************************)
(* 04_analysis.py, main: summary of the dense matrix and its rankings.     *)
(***************************************************************************)
\* Dense rows with ties in mean and in std; a row taken twice ties in both.
DensePool ==
    { <<RInt(0), RInt(1), RInt(0), RInt(1), RInt(0), RInt(1)>>,
      <<RInt(2), RInt(1), RInt(2), RInt(0), RInt(1), RInt(0)>>,
      <<RInt(1), RInt(1), RInt(1), RInt(1), RInt(1), RInt(1)>>,
      <<RInt(-1), RInt(-1), RInt(-1), RInt(-1), RInt(-1), RInt(-1)>> }

\* Most rows of a dense matrix that is ranked.
MaxRankRows == 4

DenseMatrices ==
    { FrameOf(data, ExperimentIds) :
        data \in UNION { [1..n -> DensePool] : n \in 1..MaxRankRows } }

\* The default n_top is 10.
NTopChoices == {1, 2, 10}

InitRank ==
    /\ pc = "imputed"
    /\ imputed_df \in DenseMatrices
    /\ n_top \in NTopChoices
    /\ n_neighbors = 0
    /\ results_df = <<>>
    /\ significant_mutations = NoRanking
    /\ df = NoFrame
    /\ IdleParse /\ IdleAsm /\ IdleCov /\ IdleVal /\ IdleRun

\* significant_mutations = identify_significant_mutations(results_df, n_top)
IdentifySignificantMutations ==
    /\ pc = "analysed"
    /\ n_top > 0
    /\ \E build \in NumpyBuilds :
         significant_mutations' = Identify(results_df, n_top, build)
    /\ pc' = "identified"
    /\ UNCHANGED <<df, runVars, parseVars, asmVars, covVars, valVars, n_neighbors, imputed_df,
                   results_df, n_top>>

NextRank == CategorizeMutations \/ IdentifySignificantMutations

SpecRank == InitRank /\ [][NextRank]_vars

(***************************************************************************)
(* parse_hgvs_pro called on one notation.                                  *)
(***************************************************************************)
MaxTokens == 3

\* Tokens of a notation: plain, padded with blanks or with a tab and a line end,
\* blank, empty, and one carrying markup.
TokenPool == { <<"A">>, <<"B", " ">>, <<" ", "C">>, <<"A", " ", "B">>, <<>>, <<" ">>,
               <<"A", "]">>, <<"\t", "B", "\n">> }

TokenSeqs == UNION { [1..n -> TokenPool] : n \in 1..MaxTokens }

RECURSIVE Join(_, _)
Join(toks, sep) ==
    IF Len(toks) = 0 THEN <<>>
    ELSE IF Len(toks) = 1 THEN toks[1]
    ELSE toks[1] \o sep \o Join(Tail(toks), sep)

TextOf(t) == [absent |-> FALSE, text |-> t]

\* 'p.[tok;tok;...]'
Bracketed(toks) == OpenMarkup \o Join(toks, <<";">>) \o CloseMarkup

\* 'p.tok;tok;...'
Prefixed(toks) == <<"p", ".">> \o Join(toks, <<";">>)

Notations ==
    {NoText, TextOf(Synonymous)}
        \cup { TextOf(Bracketed(toks)) : toks \in TokenSeqs }
        \cup { TextOf(Prefixed(toks)) : toks \in TokenSeqs }
        \cup { TextOf(Join(toks, <<";">>)) : toks \in TokenSeqs }

InitParse ==
    /\ pc = "parse"
    /\ hgvs_string \in Notations
    /\ mutations = <<>>
    /\ df = NoFrame
    /\ IdleAsm /\ IdleCov /\ IdleVal /\ IdleImp /\ IdleRun

\* mutations = parse_hgvs_pro(hgvs_string)
ParseNotation ==
    /\ pc = "parse"
    /\ mutations' = ParseHgvsPro(hgvs_string)
    /\ pc' = "parsed"
    /\ UNCHANGED <<df, runVars, hgvs_string, asmVars, covVars, valVars, impVars>>

NextParse == ParseNotation

SpecParse == InitParse /\ [][NextParse]_vars

(***************************************************************************)
(* 01_data_processing.py, main: raw records to effect matrix.              *)
(***************************************************************************)
MaxRecords == 3

RawExperiments == { <<"e", "1">>, <<"e", "2">> }

RawNotations ==
    { NoText, TextOf(Synonymous),
      TextOf(Bracketed(<<<<"A">>>>)),
      TextOf(Bracketed(<<<<"A">>, <<"B">>>>)),
      TextOf(Prefixed(<<<<"B">>>>)) }

RawScores == {10, 20}

RawRecords ==
    [experiment_id : RawExperiments, hgvs_pro : RawNotations, score : RawScores]

\* One printed line: the format string, the values it is filled with, and the
\* experiment id it names (the empty text: the lines of this script name none).
Line(text, values) == [text |-> text, args |-> values, names |-> <<>>]

\* The two lines create_heatmap_data prints: the shape, and the share of present
\* cells, which is 0/0 (nan) for a table without cells.
HeatmapLines(f) ==
    <<Line("Created heatmap data: {}", <<NRows(f), NCols(f)>>),
      Line("Coverage: {:.2f}%", <<CoveragePct(f)>>)>>

InitAssemble ==
    /\ pc = "process"
    /\ raw_df \in UNION { [1..n -> RawRecords] : n \in 1..MaxRecords }
    /\ df_processed = <<>>
    /\ df_scored = <<>>
    /\ heatmap_data = NoFrame
    /\ stdout = <<>>
    /\ df = NoFrame
    /\ IdleParse /\ IdleCov /\ IdleVal /\ IdleImp /\ IdleRun

\* df_processed = process_mutations(df)
ProcessMutations ==
    /\ pc = "process"
    /\ df_processed' = ProcessMutationsOf(raw_df)
    /\ stdout' = Append(stdout, Line("Exploded to {} mutation rows",
                                     <<Len(ProcessMutationsOf(raw_df))>>))
    /\ pc' = "score"
    /\ UNCHANGED <<df, runVars, parseVars, raw_df, df_scored, heatmap_data, covVars, valVars, impVars>>

\* df_scored = calculate_z_scores(df_processed)
CalculateZScores ==
    /\ pc = "score"
    /\ df_scored' = CalculateZScoresOf(df_processed)
    /\ stdout' = Append(stdout, Line("Calculated z-scores within each experiment", <<>>))
    /\ pc' = "pivot"
    /\ UNCHANGED <<df, runVars, parseVars, raw_df, df_processed, heatmap_data, covVars, valVars,
                   impVars>>

\* heatmap_data = create_heatmap_data(df_scored)
CreateHeatmapData ==
    /\ pc = "pivot"
    /\ heatmap_data' = PivotTable(df_scored)
    /\ stdout' = stdout \o HeatmapLines(PivotTable(df_scored))
    /\ pc' = "assembled"
    /\ UNCHANGED <<df, runVars, parseVars, raw_df, df_processed, df_scored, covVars, valVars, impVars>>

NextAssemble == ProcessMutations \/ CalculateZScores \/ CreateHeatmapData

SpecAssemble == InitAssemble /\ [][NextAssemble]_vars

\* The same run on longer inputs, all of bracketed notation: enough records for
\* two experiments that both have spread.
MaxLongRecords == 4

BracketedNotations ==
    { TextOf(Bracketed(<<<<"A">>>>)), TextOf(Bracketed(<<<<"A">>, <<"B">>>>)) }

BracketedRecords ==
    [experiment_id : RawExperiments, hgvs_pro : BracketedNotations, score : RawScores]

InitAssembleLong ==
    /\ pc = "process"
    /\ raw_df \in UNION { [1..n -> BracketedRecords] : n \in 1..MaxLongRecords }
    /\ df_processed = <<>>
    /\ df_scored = <<>>
    /\ heatmap_data = NoFrame
    /\ stdout = <<>>
    /\ df = NoFrame
    /\ IdleParse /\ IdleCov /\ IdleVal /\ IdleImp /\ IdleRun

SpecAssembleLong == InitAssembleLong /\ [][NextAssemble]_vars

(***************************************************************************)
(* run_pipeline.py: the runner that starts the numbered scripts one after  *)
(* the other.  The working directory is the set of its file names.  A      *)
(* script that is started reads its input files first and then saves its   *)
(* output files in order; whether it runs to its end is chosen by the      *)
(* environment.                                                            *)
(***************************************************************************)
DigitChars == <<"0", "1", "2", "3", "4", "5", "6", "7", "8", "9">>

PositionIn(c, chars) == CHOOSE i \in 1..Len(chars) : chars[i] = c

\* str.lower()
Lower(s) ==
    LET upper == <<"A", "B", "C", "D", "E", "F", "G", "H", "I", "J", "K", "L", "M">>
                 \o <<"N", "O", "P", "Q", "R", "S", "T", "U", "V", "W", "X", "Y", "Z">>
        lower == <<"a", "b", "c", "d", "e", "f", "g", "h", "i", "j", "k", "l", "m">>
                 \o <<"n", "o", "p", "q", "r", "s", "t", "u", "v", "w", "x", "y", "z">>
    IN  [i \in 1..Len(s) |->
            IF \E j \in 1..Len(upper) : upper[j] = s[i]
            THEN lower[PositionIn(s[i], upper)]
            ELSE s[i]]

\* str(n) for n >= 0, as an f-string formats a step number
RECURSIVE Str(_)
Str(n) == IF n < 10 THEN <<DigitChars[n + 1]>> ELSE Str(n \div 10) \o <<DigitChars[(n % 10) + 1]>>

IsDigit(c) == \E j \in 1..Len(DigitChars) : DigitChars[j] = c

\* int(s) accepts an optional sign and ASCII decimal digits, with single
\* underscores between digits; anything else is a ValueError
IsIntLiteral(s) ==
    LET digits == IF s # <<>> /\ s[1] \in {"+", "-"} THEN Tail(s) ELSE s
    IN  /\ digits # <<>>
        /\ IsDigit(digits[1]) /\ IsDigit(digits[Len(digits)])
        /\ \A i \in 1..Len(digits) :
             \/ IsDigit(digits[i])
             \/ digits[i] = "_" /\ IsDigit(digits[i - 1]) /\ IsDigit(digits[i + 1])

RECURSIVE DigitsValue(_)
DigitsValue(s) ==
    IF s = <<>> THEN 0
    ELSE IF s[Len(s)] = "_" THEN DigitsValue(SubSeq(s, 1, Len(s) - 1))
    ELSE 10 * DigitsValue(SubSeq(s, 1, Len(s) - 1)) + (PositionIn(s[Len(s)], DigitChars) - 1)

IntOf(s) ==
    IF s[1] = "-" THEN 0 - DigitsValue(Tail(s))
    ELSE IF s[1] = "+" THEN DigitsValue(Tail(s))
    ELSE DigitsValue(s)

\* steps_to_run = [int(s.strip()) for s in args.steps.split(',')]
ParseSteps(text) ==
    LET parts == StripAll(Split(text, ","))
    IN  IF \A i \in 1..Len(parts) : IsIntLiteral(parts[i])
        THEN [ok |-> TRUE, value |-> [i \in 1..Len(parts) |-> IntOf(parts[i])]]
        ELSE [ok |-> FALSE, value |-> <<>>]

\* steps = {1: "Data Processing", ..., 6: "Methodological Insights"}
steps ==
    <<<<"D", "a", "t", "a", " ", "P", "r", "o", "c", "e", "s", "s", "i", "n", "g">>,
      <<"D", "a", "t", "a", " ", "V", "a", "l", "i", "d", "a", "t", "i", "o", "n">>,
      <<"I", "m", "p", "u", "t", "a", "t", "i", "o", "n">>,
      <<"A", "n", "a", "l", "y", "s", "i", "s">>,
      <<"V", "i", "s", "u", "a", "l", "i", "z", "a", "t", "i", "o", "n">>,
      <<"M", "e", "t", "h", "o", "d", "o", "l", "o", "g", "i", "c", "a", "l", " ", "I", "n", "s", "i", "g", "h", "t", "s">>>>

\* script_name = f"0{step_number}_{step_name.lower().replace(' ', '_')}.py"
ScriptName(step_number, step_name) ==
    <<"0">> \o Str(step_number) \o <<"_">> \o Replace(Lower(step_name), <<" ">>, <<"_">>)
    \o <<".", "p", "y">>

\* old_files of cleanup_old_files
old_files ==
    <<<<"a", "d", "v", "a", "n", "c", "e", "d", "_", "a", "n", "a", "l", "y", "s", "i", "s", ".", "p", "y">>,
      <<"a", "n", "a", "l", "y", "z", "e", "_", "d", "a", "t", "a", "_", "c", "o", "v", "e", "r", "a", "g", "e", ".", "p", "y">>,
      <<"c", "l", "e", "a", "n", "_", "l", "d", "a", "_", "i", "m", "p", "u", "t", "a", "t", "i", "o", "n", ".", "p", "y">>,
      <<"d", "e", "b", "u", "g", "_", "p", "a", "r", "s", "i", "n", "g", ".", "p", "y">>,
      <<"e", "x", "p", "e", "r", "i", "m", "e", "n", "t", "a", "l", "_", "h", "e", "a", "t", "m", "a", "p", "_", "a", "n", "a", "l", "y", "s", "i", "s", ".", "p", "y">>,
      <<"f", "i", "n", "a", "l", "_", "l", "d", "a", "_", "i", "m", "p", "u", "t", "a", "t", "i", "o", "n", ".", "p", "y">>,
      <<"f", "o", "c", "u", "s", "e", "d", "_", "m", "u", "t", "a", "t", "i", "o", "n", "_", "a", "n", "a", "l", "y", "s", "i", "s", ".", "p", "y">>,
      <<"l", "d", "a", "_", "i", "m", "p", "u", "t", "a", "t", "i", "o", "n", ".", "p", "y">>,
      <<"s", "i", "m", "p", "l", "e", "_", "l", "d", "a", "_", "i", "m", "p", "u", "t", "a", "t", "i", "o", "n", ".", "p", "y">>,
      <<"s", "i", "m", "p", "l", "e", "_", "v", "a", "l", "i", "d", "a", "t", "i", "o", "n", ".", "p", "y">>,
      <<"v", "a", "l", "i", "d", "a", "t", "i", "o", "n", "_", "a", "n", "d", "_", "i", "n", "t", "e", "r", "p", "r", "e", "t", "a", "t", "i", "o", "n", ".", "p", "y">>,
      <<"u", "n", "p", "i", "v", "o", "t", "_", "d", "a", "t", "a", ".", "p", "y">>>>

\* The scripts of the six steps as the repository holds them.
StepScripts ==
    {<<"0", "1", "_", "d", "a", "t", "a", "_", "p", "r", "o", "c", "e", "s", "s", "i", "n", "g", ".", "p", "y">>,
     <<"0", "2", "_", "d", "a", "t", "a", "_", "v", "a", "l", "i", "d", "a", "t", "i", "o", "n", ".", "p", "y">>,
     <<"0", "3", "_", "i", "m", "p", "u", "t", "a", "t", "i", "o", "n", ".", "p", "y">>,
     <<"0", "4", "_", "a", "n", "a", "l", "y", "s", "i", "s", ".", "p", "y">>,
     <<"0", "5", "_", "v", "i", "s", "u", "a", "l", "i", "z", "a", "t", "i", "o", "n", ".", "p", "y">>,
     <<"0", "6", "_", "m", "e", "t", "h", "o", "d", "o", "l", "o", "g", "i", "c", "a", "l", "_", "i", "n", "s", "i", "g", "h", "t", "s", ".", "p", "y">>}

ConsoleLine(msg, n, m) == [msg |-> msg, n |-> n, m |-> m]

\* cleanup_old_files(): every listed file that exists is removed and reported
RECURSIVE RemovedLines(_, _)
RemovedLines(dir, i) ==
    IF i > Len(old_files) THEN <<>>
    ELSE (IF old_files[i] \in dir THEN <<ConsoleLine("Removed:", i, 0)>> ELSE <<>>)
         \o RemovedLines(dir, i + 1)

CleanupOldFiles(dir) ==
    [files |-> dir \ {old_files[i] : i \in 1..Len(old_files)},
     console |-> <<ConsoleLine("Cleaning up old files...", 0, 0)>> \o RemovedLines(dir, 1)
                 \o <<ConsoleLine("Removed old files", Len(RemovedLines(dir, 1)), 0)>>]

\* The files of the working directory each script reads before it saves
\* anything (pd.read_csv, open(..., 'r')); the raw data of step 1 lies outside.
ScriptReads ==
    <<{},
      {<<"n", "o", "r", "m", "a", "l", "i", "z", "e", "d", "_", "h", "e", "a", "t", "m", "a", "p", "_", "d", "a", "t", "a", ".", "c", "s", "v">>},
      {<<"n", "o", "r", "m", "a", "l", "i", "z", "e", "d", "_", "h", "e", "a", "t", "m", "a", "p", "_", "d", "a", "t", "a", ".", "c", "s", "v">>,
       <<"v", "a", "l", "i", "d", "a", "t", "i", "o", "n", "_", "r", "e", "s", "u", "l", "t", "s", ".", "j", "s", "o", "n">>},
      {<<"i", "m", "p", "u", "t", "e", "d", "_", "d", "a", "t", "a", ".", "c", "s", "v">>},
      {<<"i", "m", "p", "u", "t", "e", "d", "_", "d", "a", "t", "a", ".", "c", "s", "v">>,
       <<"a", "n", "a", "l", "y", "s", "i", "s", "_", "r", "e", "s", "u", "l", "t", "s", ".", "c", "s", "v">>},
      {<<"i", "m", "p", "u", "t", "e", "d", "_", "d", "a", "t", "a", ".", "c", "s", "v">>,
       <<"a", "n", "a", "l", "y", "s", "i", "s", "_", "r", "e", "s", "u", "l", "t", "s", ".", "c", "s", "v">>}>>

\* The files each script saves (to_csv, json.dump, savefig, write_html, write),
\* in the order it saves them.
ScriptWrites ==
    <<<<<<"n", "o", "r", "m", "a", "l", "i", "z", "e", "d", "_", "h", "e", "a", "t", "m", "a", "p", "_", "d", "a", "t", "a", ".", "c", "s", "v">>>>,
      <<<<"v", "a", "l", "i", "d", "a", "t", "i", "o", "n", "_", "r", "e", "s", "u", "l", "t", "s", ".", "j", "s", "o", "n">>>>,
      <<<<"i", "m", "p", "u", "t", "e", "d", "_", "d", "a", "t", "a", ".", "c", "s", "v">>,
       <<"i", "m", "p", "u", "t", "a", "t", "i", "o", "n", "_", "q", "u", "a", "l", "i", "t", "y", ".", "j", "s", "o", "n">>>>,
      <<<<"a", "n", "a", "l", "y", "s", "i", "s", "_", "r", "e", "s", "u", "l", "t", "s", ".", "c", "s", "v">>,
       <<"a", "n", "a", "l", "y", "s", "i", "s", "_", "s", "u", "m", "m", "a", "r", "y", ".", "j", "s", "o", "n">>>>,
      <<<<"c", "o", "m", "p", "r", "e", "h", "e", "n", "s", "i", "v", "e", "_", "a", "n", "a", "l", "y", "s", "i", "s", ".", "p", "n", "g">>,
       <<"i", "n", "t", "e", "r", "a", "c", "t", "i", "v", "e", "_", "h", "e", "a", "t", "m", "a", "p", ".", "h", "t", "m", "l">>,
       <<"c", "o", "n", "s", "i", "s", "t", "e", "n", "c", "y", "_", "a", "n", "a", "l", "y", "s", "i", "s", ".", "p", "n", "g">>>>,
      <<<<"m", "e", "t", "h", "o", "d", "o", "l", "o", "g", "i", "c", "a", "l", "_", "i", "n", "s", "i", "g", "h", "t", "s", ".", "p", "n", "g">>,
       <<"m", "e", "t", "h", "o", "d", "s", "_", "p", "a", "p", "e", "r", "_", "o", "u", "t", "l", "i", "n", "e", ".", "m", "d">>,
       <<"m", "e", "t", "h", "o", "d", "o", "l", "o", "g", "i", "c", "a", "l", "_", "i", "n", "s", "i", "g", "h", "t", "s", ".", "j", "s", "o", "n">>>>>>

\* What the script of a step can end with when started in directory dir: its
\* return code, whether it wrote to stderr, and the files it saved.  A script
\* whose input is missing ends with an uncaught FileNotFoundError before it has
\* saved anything; any other run ends with 0 after every save, or with an error
\* after some of its saves.
ScriptRuns(step_number, dir) ==
    LET saved(k) == { ScriptWrites[step_number][i] : i \in 1..k }
        all == Len(ScriptWrites[step_number])
    IN  IF ~(ScriptReads[step_number] \subseteq dir)
        THEN { [returncode |-> 1, stderr |-> TRUE, written |-> {}] }
        ELSE { [returncode |-> 0, stderr |-> b, written |-> saved(all)] : b \in BOOLEAN }
             \cup { [returncode |-> 1, stderr |-> TRUE, written |-> saved(k)] : k \in 0..all }

\* run_step(step_number, step_name) in directory dir, the script ending with result
RunStep(step_number, step_name, dir, result) ==
    LET script_name == ScriptName(step_number, step_name)
        head == <<ConsoleLine("RUNNING STEP", step_number, 0)>>
    IN  IF script_name \notin dir
        THEN [started |-> FALSE, result |-> FALSE, files |-> dir,
              console |-> head \o <<ConsoleLine("Error: script not found!", step_number, 0)>>]
        ELSE IF result.returncode = 0
        THEN [started |-> TRUE, result |-> TRUE, files |-> dir \cup result.written,
              console |-> head \o <<ConsoleLine("stdout of the script", step_number, 0)>>
                          \o (IF result.stderr
                              THEN <<ConsoleLine("Warnings/Errors:", step_number, 0)>> ELSE <<>>)]
        ELSE [started |-> TRUE, result |-> FALSE, files |-> dir \cup result.written,
              console |-> head \o <<ConsoleLine("Error running the script", step_number, 0)>>]

\* Longest request and largest step number a request names; the steps dict
\* defines 1..6.
MaxSteps == 3

MaxStepNumber == 7

RECURSIVE JoinSteps(_, _)
JoinSteps(numbers, sep) ==
    IF Len(numbers) = 1 THEN Str(numbers[1])
    ELSE Str(numbers[1]) \o sep \o JoinSteps(Tail(numbers), sep)

StepLists == UNION { [1..n -> 1..MaxStepNumber] : n \in 1..MaxSteps }

\* Values of --steps: lists of numbers, some written with blanks, tabs or line
\* ends, numbers written with an underscore, and values that int() rejects.
StepsArguments ==
    { JoinSteps(l, <<",">>) : l \in StepLists }
    \cup { JoinSteps(l, <<",", " ">>) : l \in { x \in StepLists : Len(x) = 2 } }
    \cup { <<"\t">> \o JoinSteps(l, <<"\n", ",", "">>) \o <<"\r">> :
             l \in { x \in StepLists : Len(x) = 2 } }
    \cup { <<"0", "_", "1">>, <<"1", "_", "0">>, <<"+", "2", ",", "0", "3">>, <<"-", "1">> }
    \cup { <<>>, <<"1", ",">>, <<"1", ",", "x">>, <<"1", "_", "_", "2">>, <<"_", "1">>,
           <<"1", "_">>, <<"+", "_", "1">>, <<"1", " ", "2">> }

\* The working directory: the repository's files, with at most one of the six
\* scripts missing, before any run or with the files an earlier run saved.
Directories ==
    LET repo == StepScripts \cup {old_files[12]}
        earlier == UNION { { ScriptWrites[n][i] : i \in 1..Len(ScriptWrites[n]) } :
                           n \in 1..Len(ScriptWrites) }
    IN  { scripts \cup saved : scripts \in {repo} \cup { repo \ {s} : s \in StepScripts },
                              saved \in {{}, earlier} }

InitPipeline ==
    /\ pc = "main"
    /\ args \in [steps : StepsArguments, cleanup : BOOLEAN]
    /\ files \in Directories
    /\ steps_to_run = <<>>
    /\ step_index = 0
    /\ success_count = 0
    /\ run_step_calls = <<>>
    /\ console = <<>>
    /\ df = NoFrame
    /\ IdleParse /\ IdleAsm /\ IdleCov /\ IdleVal /\ IdleImp

\* main, lines 86-110: the optional cleanup, the parse of --steps, the banner.
\* int() raises ValueError on a malformed number; the banner looks every
\* requested number up in steps and raises KeyError on one that is not defined.
StartPipeline ==
    /\ pc = "main"
    /\ LET cleaned == IF args.cleanup THEN CleanupOldFiles(files)
                      ELSE [files |-> files, console |-> <<>>]
           parsed == ParseSteps(args.steps)
           title == <<ConsoleLine("VARIANT EFFECT ANALYSIS PIPELINE", 0, 0)>>
       IN  /\ files' = cleaned.files
           /\ IF ~parsed.ok
              THEN /\ pc' = "ValueError"
                   /\ console' = cleaned.console
                   /\ UNCHANGED <<steps_to_run, step_index>>
              ELSE IF \E i \in 1..Len(parsed.value) : parsed.value[i] \notin DOMAIN steps
              THEN /\ pc' = "KeyError"
                   /\ steps_to_run' = parsed.value
                   /\ console' = cleaned.console \o title
                   /\ UNCHANGED step_index
              ELSE /\ pc' = "loop"
                   /\ steps_to_run' = parsed.value
                   /\ step_index' = 1
                   /\ console' = cleaned.console \o title
                                 \o <<ConsoleLine("Running steps:", Len(parsed.value), 0)>>
    /\ UNCHANGED <<args, success_count, run_step_calls>>
    /\ UNCHANGED <<df, parseVars, asmVars, covVars, valVars, impVars>>

\* main, lines 111-120: one turn of the loop over steps_to_run.
RunNextStep ==
    /\ pc = "loop"
    /\ LET step_num == steps_to_run[step_index]
       IN  IF step_num \in DOMAIN steps
           THEN \E result \in ScriptRuns(step_num, files) :
                  LET call == RunStep(step_num, steps[step_num], files, result)
                  IN  /\ files' = call.files
                      /\ run_step_calls' = Append(run_step_calls,
                             [step_number |-> step_num, started |-> call.started,
                              result |-> call.result])
                      /\ IF call.result
                         THEN /\ success_count' = success_count + 1
                              /\ console' = console \o call.console
                              /\ step_index' = step_index + 1
                              /\ pc' = IF step_index = Len(steps_to_run)
                                       THEN "summary" ELSE "loop"
                         ELSE /\ console' = console \o call.console
                                    \o <<ConsoleLine("Step failed! Stopping pipeline.", step_num, 0)>>
                              /\ pc' = "summary"
                              /\ UNCHANGED <<success_count, step_index>>
           ELSE /\ console' = console \o <<ConsoleLine("Error: Step not defined!", step_num, 0)>>
                /\ pc' = "summary"
                /\ UNCHANGED <<success_count, step_index, run_step_calls, files>>
    /\ UNCHANGED <<args, steps_to_run>>
    /\ UNCHANGED <<df, parseVars, asmVars, covVars, valVars, impVars>>

\* main, lines 122-139: the summary.
PrintSummary ==
    /\ pc = "summary"
    /\ console' = console
          \o <<ConsoleLine("PIPELINE COMPLETE", 0, 0),
               ConsoleLine("Successfully completed", success_count, Len(steps_to_run))>>
          \o (IF success_count = Len(steps_to_run)
              THEN <<ConsoleLine("All steps completed successfully!", 0, 0)>>
              ELSE <<ConsoleLine("Pipeline incomplete.", Len(steps_to_run) - success_count, 0)>>)
    /\ pc' = "exit"
    /\ UNCHANGED <<args, files, steps_to_run, step_index, success_count, run_step_calls>>
    /\ UNCHANGED <<df, parseVars, asmVars, covVars, valVars, impVars>>

NextPipeline == StartPipeline \/ RunNextStep \/ PrintSummary

SpecPipeline == InitPipeline /\ [][NextPipeline]_vars

(***************************************************************************)
(* Claims.                                                                 *)
(***************************************************************************)
SD == "Strong Deleterious"
DL == "Deleterious"
NT == "Neutral"
BN == "Beneficial"
SB == "Strong Beneficial"

\* The partition as the claim words it: [0.5, 1) Beneficial, >= 1 Strong Beneficial.
ClaimedCategory(m) ==
    IF RLeq(m, RInt(-1)) THEN SD
    ELSE IF RLeq(m, Rat(-1, 2)) THEN DL
    ELSE IF RLess(m, Rat(1, 2)) THEN NT
    ELSE IF RLess(m, RInt(1)) THEN BN
    ELSE SB

\* Every bin closed on the right: (-0.5, 0.5] Neutral, (0.5, 1] Beneficial, > 1 Strong Beneficial.
RightClosedCategory(m) ==
    IF RLeq(m, RInt(-1)) THEN SD
    ELSE IF RLeq(m, Rat(-1, 2)) THEN DL
    ELSE IF RLeq(m, Rat(1, 2)) THEN NT
    ELSE IF RLeq(m, RInt(1)) THEN BN
    ELSE SB

\* C1 as stated: each summary row is labelled from its mean with m <= -1 Strong
\* Deleterious, (-1, -0.5] Deleterious, (-0.5, 0.5) Neutral, [0.5, 1) Beneficial,
\* m >= 1 Strong Beneficial.  Refuted: a mean of exactly 0.5 or 1 falls in the lower bin.
C1_AsClaimed ==
    pc = "analysed" =>
        \A r \in 1..Len(results_df) :
            results_df[r].effect_category = ClaimedCategory(results_df[r].mean_effect)

\* C1 amended: each summary row carries the mean of its dense-matrix row and the
\* label of the right-closed bin holding that mean: m <= -1 Strong Deleterious,
\* (-1, -0.5] Deleterious, (-0.5, 0.5] Neutral, (0.5, 1] Beneficial, m > 1 Strong
\* Beneficial; a mean of exactly 0.5 is Neutral and a mean of exactly 1 Beneficial.
C1_RightClosedBins ==
    pc = "analysed" =>
        /\ Len(results_df) = NRows(imputed_df)
        /\ \A r \in 1..Len(results_df) :
            /\ results_df[r].mean_effect = RMean(imputed_df.data[r])
            /\ results_df[r].effect_category = RightClosedCategory(results_df[r].mean_effect)

\* Rows with means exactly 0.5 and exactly 1 have been categorised.
C1_Witness ==
    /\ pc = "analysed"
    /\ \E r \in 1..Len(results_df) :
         results_df[r].mean_effect = Rat(1, 2) /\ results_df[r].effect_category = NT
    /\ \E r \in 1..Len(results_df) :
         results_df[r].mean_effect = RInt(1) /\ results_df[r].effect_category = BN

\* The folds of the finished call in which at least one pair was compared.
ScoredFolds == { i \in 1..Len(fold_log) : fold_log[i].pairs # <<>> }

\* C2: when no candidate has a fold with a valid comparison pair (an empty
\* coverage-filtered matrix included), validate_knn_imputation ends in an error and
\* returns no neighbour count; a returned winner always rests on a scored fold.
C2_NoFoldNoWinner ==
    /\ pc = "validated" => ScoredFolds # {} /\ NRows(well_covered_df) > 0
    /\ (pc \in {"validated", "error"} /\ ScoredFolds = {}) =>
            pc = "error" /\ best_result = NoResult

\* Every fold of every candidate ran, none had a pair to compare, and the call failed.
C2_Witness ==
    /\ pc = "error"
    /\ NRows(well_covered_df) > 0
    /\ Len(fold_log) = Len(n_neighbors_list) * n_splits
    /\ ScoredFolds = {}
    /\ best_result = NoResult

\* Mean squared error of the pairs compared in one fold, from the fold log.
FoldMse(e) == RMean([i \in 1..Len(e.pairs) |-> SqErr(e.pairs[i])])

\* A candidate's scored folds, and the average of their errors.
FoldsOf(k) == SelectSeq(fold_log, LAMBDA e : e.n_neighbors = k /\ e.pairs # <<>>)

AvgMse(k) == RMean([i \in 1..Len(FoldsOf(k)) |-> FoldMse(FoldsOf(k)[i])])

\* Positions of the candidate list with at least one scored fold.
Eligible == { i \in 1..Len(n_neighbors_list) : FoldsOf(n_neighbors_list[i]) # <<>> }

\* C3: the returned candidate has the minimal fold-averaged MSE among the candidates
\* with a valid fold, and of several minimal ones it is the first in the list.
C3_FirstMinimum ==
    pc = "validated" =>
        \E i \in Eligible :
            /\ best_result.n_neighbors = n_neighbors_list[i]
            /\ best_result.mse = AvgMse(n_neighbors_list[i])
            /\ \A j \in Eligible :
                /\ ~RLess(AvgMse(n_neighbors_list[j]), best_result.mse)
                /\ j < i => RLess(best_result.mse, AvgMse(n_neighbors_list[j]))

\* A call returned where a later candidate ties with the winner.
C3_Witness ==
    /\ pc = "validated"
    /\ \E i, j \in Eligible :
         /\ i < j
         /\ best_result.n_neighbors = n_neighbors_list[i]
         /\ AvgMse(n_neighbors_list[j]) = best_result.mse

\* The cells a fold hides when its seed is its own index: the known cells whose
\* draw, counted row-major from the start of that seed's stream, is below 0.2.
HiddenBySeed(s, f) ==
    { rc \in KnownCells(f) : DrawBelow(s, (rc[1] - 1) * NCols(f) + (rc[2] - 1)) }

\* C4: the cells hidden in a fold depend on the fold index and the matrix only, and a
\* second call on the same matrix, candidates and fold count ends like the first:
\* same winner, same per-candidate metrics.
C4_Deterministic ==
    /\ \A i \in 1..Len(fold_log) :
         fold_log[i].hidden = HiddenBySeed(fold_log[i].split, well_covered_df)
    /\ (run > 1 /\ pc \in {"validated", "error"}) => Outcome = prev_outcome

\* A second call returned a winner after folds that hid cells.
C4_Witness ==
    /\ run > 1
    /\ pc = "validated"
    /\ \E i \in 1..Len(fold_log) : fold_log[i].hidden # {}
    /\ prev_outcome.status = "validated"

NoMissing(f) == \A r \in 1..NRows(f) : RowCount(f.data[r]) = NCols(f)

\* C5: perform_knn_imputation applied to a matrix without missing cells returns
\* it unchanged (same rows, same columns, same cells), whatever its number of
\* columns.  Refuted: over fewer than five experiments no row passes the built-in
\* coverage filter and the imputer fails on the empty matrix.
C5_CompleteUnchanged ==
    (pc # "impute" /\ NoMissing(df)) => pc # "error" /\ imputed_df = df

\* The coverage filter at threshold t applied to frame f, stated row by row.
IsFilterOf(wc, f, t) ==
    LET kept == { r \in 1..NRows(f) : RowCount(f.data[r]) >= t }
    IN  /\ NRows(wc) = Cardinality(kept)
        /\ wc.columns = f.columns
        /\ \A i \in 1..NRows(wc) :
             \E r \in kept : /\ wc.index[i] = f.index[r]
                             /\ wc.data[i] = f.data[r]
                             /\ i = Cardinality({q \in kept : q <= r})

\* C6: the frame returned by perform_knn_imputation has the rows and columns of
\* the coverage-filtered matrix and a defined value in every cell, for every effect
\* matrix with a well-covered row.  Refuted: when an experiment has no value among
\* the well-covered rows the call fails.
C6_DenseSameShape ==
    (pc # "impute" /\ \E r \in 1..NRows(df) : RowCount(df.data[r]) >= CoverageThreshold) =>
        /\ pc # "error"
        /\ imputed_df.index = RowSubset(df, WellCoveredMask(df)).index
        /\ imputed_df.columns = df.columns
        /\ NoMissing(imputed_df)

\* C7: for any effect matrix and any threshold t the caller asks for, the coverage
\* filter returns exactly the rows with at least t present entries, cells unchanged,
\* and reports the total and the retained row counts.  Refuted: the filter takes
\* no threshold and always keeps the rows with at least 5 present entries.
C7_CallerThreshold ==
    pc # "coverage" =>
        /\ \A t \in RequestedThresholds : IsFilterOf(well_covered_df, df, t)
        /\ coverage_stats.total_mutations = NRows(df)
        /\ coverage_stats.well_covered_mutations = NRows(well_covered_df)

\* C8: with no row at the threshold the report still comes back, the retained count
\* is 0 and the coverage after filtering is 0%.  Refuted: that coverage is 0/0, NaN.
C8_EmptyIsZeroPercent ==
    (pc # "coverage" /\ NRows(well_covered_df) = 0) =>
        /\ coverage_stats.well_covered_mutations = 0
        /\ coverage_stats.well_covered_coverage = RInt(0)

\* Positions of the atomic records, and the mutations they name.
AtomicRows == 1..Len(df_processed)

\* The experiments with at least one atomic record of mutation m.
Reporting(m) ==
    { df_processed[i].experiment_id : i \in { j \in AtomicRows : df_processed[j].mutation = m } }

\* An experiment without defined z-scores: a single atomic record, or no spread.
Degenerate(e) ==
    LET rows == { i \in AtomicRows : df_processed[i].experiment_id = e }
    IN  \/ Cardinality(rows) < 2
        \/ \A i, j \in rows : df_processed[i].score = df_processed[j].score

\* C9 as stated: every row of the effect matrix has as many present entries as
\* there are distinct experiments reporting its mutation, degenerate experiments
\* included.  Refuted: an experiment with undefined z-scores fills no cell.
C9_AsClaimed ==
    pc = "assembled" =>
        \A r \in 1..NRows(heatmap_data) :
            RowCount(heatmap_data.data[r]) = Cardinality(Reporting(heatmap_data.index[r]))

\* C9 amended: every row of the effect matrix has as many present entries as there
\* are distinct experiments that report its mutation and have defined z-scores
\* (at least two atomic records, not all of one score); a mutation reported only by
\* experiments with undefined z-scores has no row.
C9_DefinedExperimentsOnly ==
    pc = "assembled" =>
        /\ \A r \in 1..NRows(heatmap_data) :
             RowCount(heatmap_data.data[r]) =
                Cardinality({ e \in Reporting(heatmap_data.index[r]) : ~Degenerate(e) })
        /\ { heatmap_data.index[r] : r \in 1..NRows(heatmap_data) } =
             { df_processed[i].mutation :
                 i \in { j \in AtomicRows : ~Degenerate(df_processed[j].experiment_id) } }

\* A matrix was built in which a mutation has a value from one experiment and
\* is also reported by an experiment whose z-scores are undefined.
C9_Witness ==
    /\ pc = "assembled"
    /\ \E r \in 1..NRows(heatmap_data) :
         /\ RowCount(heatmap_data.data[r]) = 1
         /\ Cardinality(Reporting(heatmap_data.index[r])) = 2

\* m is token tok without its leading and trailing whitespace.
IsTrimOf(m, tok) ==
    \E a \in 1..(Len(tok) + 1) : \E b \in 0..Len(tok) :
        /\ m = SubSeq(tok, a, b)
        /\ \A i \in 1..Len(tok) : (i < a \/ i > b) => tok[i] \in Whitespace
        /\ m # <<>> => (m[1] \notin Whitespace /\ m[Len(m)] \notin Whitespace)

\* Tokens without bracket markup, and the positions of the tokens with a
\* character other than whitespace.
MarkupFree(toks) == \A i \in 1..Len(toks) : \A j \in 1..Len(toks[i]) : toks[i][j] \notin {"[", "]"}

Solid(toks) ==
    { i \in 1..Len(toks) : \E j \in 1..Len(toks[i]) : toks[i][j] \notin Whitespace }

\* C10 as stated: a compound notation of n tokens gives exactly n mutations, the
\* i-th the trimmed i-th token.  Refuted: a token empty after trimming is discarded.
C10_AsClaimed ==
    pc = "parsed" =>
        \A toks \in TokenSeqs :
            (hgvs_string = TextOf(Bracketed(toks)) /\ MarkupFree(toks)) =>
                /\ Len(mutations) = Len(toks)
                /\ \A i \in 1..Len(toks) : IsTrimOf(mutations[i], toks[i])

\* C10 amended: for a compound notation 'p.[t1;...;tn]' whose tokens carry no
\* bracket markup, parse_hgvs_pro returns the trimmed tokens that are not empty
\* after trimming, in order (exactly n mutations when no token is blank); for an
\* absent value or 'p.=' it returns the empty sequence.
C10_NonBlankTokensTrimmed ==
    pc = "parsed" =>
        /\ (hgvs_string.absent \/ hgvs_string.text = Synonymous) => mutations = <<>>
        /\ \A toks \in TokenSeqs :
            (hgvs_string = TextOf(Bracketed(toks)) /\ MarkupFree(toks)) =>
                /\ Len(mutations) = Cardinality(Solid(toks))
                /\ \A i \in Solid(toks) :
                     IsTrimOf(mutations[Cardinality({ j \in Solid(toks) : j <= i })], toks[i])

\* A notation of three tokens, one blank and one padded, was parsed into two mutations.
C10_Witness ==
    /\ pc = "parsed"
    /\ hgvs_string = TextOf(Bracketed(<<<<" ", "C">>, <<" ">>, <<"A">>>>))
    /\ mutations = <<<<"C">>, <<"A">>>>

\* Text t begins with the prefix 'p.'.
HasPrefix(t) == Len(t) >= 2 /\ t[1] = "p" /\ t[2] = "."

\* C11: whatever the notation, bracketed or not, no returned token carries the 'p.'
\* prefix, a '[' or a ']', none is empty or padded with whitespace, and a single
\* substitution written 'p.X' gives the token it gives inside 'p.[X]'.  Refuted:
\* only the bracketed opening 'p.[' is removed, so 'p.X' comes back as 'p.X'.
C11_MarkupStripped ==
    pc = "parsed" =>
        /\ \A i \in 1..Len(mutations) :
             /\ ~HasPrefix(mutations[i])
             /\ \A j \in 1..Len(mutations[i]) : mutations[i][j] \notin {"[", "]"}
             /\ mutations[i] # <<>>
             /\ mutations[i][1] \notin Whitespace
             /\ mutations[i][Len(mutations[i])] \notin Whitespace
        /\ \A tok \in TokenPool :
             hgvs_string = TextOf(Prefixed(<<tok>>)) =>
                mutations = ParseHgvsPro(TextOf(Bracketed(<<tok>>)))

\* The experiments of the scored records, and the z-scores of one of them in order.
ScoredExperiments == { df_scored[i].experiment_id : i \in 1..Len(df_scored) }

ZScoresOf(e) ==
    LET rows == SelectSeq(df_scored, LAMBDA r : r.experiment_id = e)
    IN  [i \in 1..Len(rows) |-> rows[i].z_score]

\* The rational factors of a sequence of z-scores that share their radical.
Coefs(zs) == [i \in 1..Len(zs) |-> <<zs[i][1], zs[i][2]>>]

\* Sum of the squared deviations of the factors from their mean.
CoefSpread(zs) ==
    LET c == Coefs(zs)
        m == RMean(c)
    IN  RSum([i \in 1..Len(c) |-> RMul(RSub(c[i], m), RSub(c[i], m))])

\* C12: for every experiment with at least two atomic records and scores that are
\* not all equal, the z-scores of its records sum to 0 and their sample (n - 1)
\* standard deviation is 1 (variance 1: squared deviations summing to n - 1).
C12_ZeroSumUnitStd ==
    pc \in {"pivot", "assembled"} =>
        \A e \in ScoredExperiments :
            ~Degenerate(e) =>
                LET zs == ZScoresOf(e)
                IN  /\ \A i \in 1..Len(zs) : ~IsNaN(zs[i]) /\ zs[i][3] = zs[1][3]
                    /\ RSum(Coefs(zs)) = RInt(0)
                    /\ RMul(CoefSpread(zs), zs[1][3]) = RInt(Len(zs) - 1)

\* An experiment with three atomic records of unequal scores has been normalised,
\* next to a degenerate one.
C12_Witness ==
    /\ pc = "pivot"
    /\ \E e \in ScoredExperiments :
         /\ Len(ZScoresOf(e)) = 3
         /\ ~Degenerate(e)
         /\ \E i, j \in 1..3 : ZScoresOf(e)[i] # ZScoresOf(e)[j]

\* An experiment whose atomic records, two or more, all carry one score.
ZeroVariance(e) ==
    LET rows == { i \in AtomicRows : df_processed[i].experiment_id = e }
    IN  /\ Cardinality(rows) >= 2
        /\ \A i, j \in rows : df_processed[i].score = df_processed[j].score

\* C13: a zero-variance experiment gets an undefined z-score for every record, the
\* run reaches the effect matrix, the experiment fills no cell of it, and a printed
\* line reports the experiment as degenerate.  Refuted: nothing is printed about it.
C13_DegenerateReported ==
    pc = "assembled" =>
        \A e \in ScoredExperiments :
            ZeroVariance(e) =>
                /\ \A i \in 1..Len(ZScoresOf(e)) : IsNaN(ZScoresOf(e)[i])
                /\ \A c \in 1..NCols(heatmap_data) : heatmap_data.columns[c] # e
                /\ \E i \in 1..Len(stdout) : stdout[i].names = e

\* The part of C13 the code keeps: undefined z-scores, no crash, no cell.
C13_Witness ==
    /\ pc = "assembled"
    /\ \E e \in ScoredExperiments :
         /\ ZeroVariance(e)
         /\ \A i \in 1..Len(ZScoresOf(e)) : IsNaN(ZScoresOf(e)[i])
         /\ \A c \in 1..NCols(heatmap_data) : heatmap_data.columns[c] # e
         /\ NRows(heatmap_data) > 0

LabelSet == {SD, DL, NT, BN, SB}

\* C14: every summary row carries exactly one of the five labels, and the label is
\* a function of the row's mean: rows with equal means carry equal labels.
C14_TotalPartition ==
    pc = "analysed" =>
        /\ \A r \in 1..Len(results_df) :
             Cardinality({ l \in LabelSet : results_df[r].effect_category = l }) = 1
        /\ \A r1, r2 \in 1..Len(results_df) :
             results_df[r1].mean_effect = results_df[r2].mean_effect =>
                results_df[r1].effect_category = results_df[r2].effect_category

\* A summary with an end bin and another label, and two rows of different cells
\* but one mean.
C14_Witness ==
    /\ pc = "analysed"
    /\ Cardinality({ results_df[r].effect_category : r \in 1..Len(results_df) }) = 2
    /\ \E r \in 1..Len(results_df) : results_df[r].effect_category = SD
    /\ \E r1, r2 \in 1..Len(results_df) :
         /\ imputed_df.data[r1] # imputed_df.data[r2]
         /\ results_df[r1].mean_effect = results_df[r2].mean_effect

\* Sample variance of the cells of a row of the dense matrix:
\* (n * sum of squares - (sum)^2) / (n (n - 1)).
SampleVariance(row) ==
    LET n  == Len(row)
        S  == RSum(row)
        SS == RSum([i \in 1..n |-> RMul(row[i], row[i])])
    IN  RDiv(RSub(RMul(RInt(n), SS), RMul(S, S)), RInt(n * (n - 1)))

\* C15: in every summary row the consistency score c satisfies c * (1 + s) = 1 for
\* the sample standard deviation s of the dense row, the flag high_consistency is
\* true exactly when s <= 3/7 (s^2 <= 9/49), and 0 < c <= 1.
C15_ConsistencyScore ==
    pc = "analysed" =>
        \A r \in 1..Len(results_df) :
            LET v == SampleVariance(imputed_df.data[r])
                c == results_df[r].consistency_score
            IN  /\ c[3] = v \/ (v = RInt(0) /\ RSign(c[2]) = 0)
                /\ QSign(<<RSub(RAdd(c[1], RMul(c[2], v)), RInt(1)), RAdd(c[1], c[2]), v>>) = 0
                /\ results_df[r].high_consistency <=> RLeq(v, Rat(9, 49))
                /\ QSign(<<c[1], c[2], v>>) = 1
                /\ QSign(<<RSub(RInt(1), c[1]), RSub(RInt(0), c[2]), v>>) >= 0

\* A summary with a flagged row that has spread and a row that is not flagged.
C15_Witness ==
    /\ pc = "analysed"
    /\ \E r \in 1..Len(results_df) :
         /\ results_df[r].high_consistency
         /\ SampleVariance(imputed_df.data[r]) # RInt(0)
    /\ \E r \in 1..Len(results_df) : ~results_df[r].high_consistency

Rankings == {"most_deleterious", "most_beneficial", "most_variable", "most_consistent"}

\* Row a of the dense matrix comes strictly before row b under a ranking's key:
\* lower mean, higher mean, higher sample variance, lower sample variance (the
\* consistency score 1 / (1 + s) is highest where the spread is lowest).
Precedes(kind, a, b) ==
    LET ma == RMean(imputed_df.data[a])
        mb == RMean(imputed_df.data[b])
        va == SampleVariance(imputed_df.data[a])
        vb == SampleVariance(imputed_df.data[b])
    IN  CASE kind = "most_deleterious" -> RLess(ma, mb)
          [] kind = "most_beneficial"  -> RLess(mb, ma)
          [] kind = "most_variable"    -> RLess(vb, va)
          [] kind = "most_consistent"  -> RLess(va, vb)

SameKey(kind, a, b) == ~Precedes(kind, a, b) /\ ~Precedes(kind, b, a)

Selected(kind) ==
    { significant_mutations[kind][i].row : i \in 1..Len(significant_mutations[kind]) }

\* A ranking holds min(N, rows) different rows of the summary, the best under its
\* key, in the order of the key.
KeySorted(kind) ==
    LET L == significant_mutations[kind]
        N == Len(results_df)
    IN  /\ Len(L) = (IF n_top < N THEN n_top ELSE N)
        /\ \A i \in 1..Len(L) :
             /\ L[i].row \in 1..N
             /\ L[i].mutation = results_df[L[i].row].mutation
             /\ L[i].mean_effect = results_df[L[i].row].mean_effect
        /\ \A i, j \in 1..Len(L) : i < j =>
             /\ L[i].row # L[j].row
             /\ ~Precedes(kind, L[j].row, L[i].row)
        /\ \A i \in 1..Len(L) : \A r \in (1..N) \ Selected(kind) :
             ~Precedes(kind, r, L[i].row)

\* Rows of equal key come in their row order, and the earlier row is the one kept
\* at the cut-off.
TiesInRowOrder(kind) ==
    LET L == significant_mutations[kind]
    IN  /\ \A i, j \in 1..Len(L) :
             (i < j /\ SameKey(kind, L[i].row, L[j].row)) => L[i].row < L[j].row
        /\ \A i \in 1..Len(L) : \A r \in (1..Len(results_df)) \ Selected(kind) :
             SameKey(kind, L[i].row, r) => L[i].row < r

\* C16 as stated: every ranking holds min(N, rows) rows sorted by its key, and
\* rows of equal key always appear in their original row order.
C16_AsClaimed ==
    pc = "identified" =>
        \A kind \in Rankings : KeySorted(kind) /\ TiesInRowOrder(kind)

\* C16: every ranking holds min(N, rows) rows sorted by its key; when N is below
\* the number of rows, or the summary has at most three rows, rows of equal key
\* appear in their original row order and the earlier row is kept at the cut-off
\* (with N at or above a number of rows of four or more the order of rows of
\* equal key is the one the library's sort leaves).
C16_TiesStableOffTheFullSort ==
    pc = "identified" =>
        \A kind \in Rankings :
            /\ KeySorted(kind)
            /\ (n_top < Len(results_df) \/ Len(results_df) <= 3) => TiesInRowOrder(kind)

\* A ranking of four rows cut below the number of rows, with two listed rows of
\* equal key and a row of the same key left out.
C16_Witness ==
    /\ pc = "identified"
    /\ Len(results_df) = 4
    /\ n_top < Len(results_df)
    /\ \E kind \in Rankings :
         LET L == significant_mutations[kind]
         IN  /\ Len(L) = 2
             /\ SameKey(kind, L[1].row, L[2].row)
             /\ \E r \in (1..Len(results_df)) \ Selected(kind) : SameKey(kind, L[2].row, r)

\* A full ranking of four rows in which a later row comes before an earlier row
\* of the same key.
C16_TieOutOfRowOrder ==
    /\ pc = "identified"
    /\ Len(results_df) = 4
    /\ n_top >= Len(results_df)
    /\ \E kind \in Rankings :
         LET L == significant_mutations[kind]
         IN  \E i, j \in 1..Len(L) :
               i < j /\ SameKey(kind, L[i].row, L[j].row) /\ L[i].row > L[j].row

\* A full ranking of three rows, two of them of the same key.
C16_ShortFullRanking ==
    /\ pc = "identified"
    /\ Len(results_df) = 3
    /\ n_top >= Len(results_df)
    /\ \E kind \in Rankings :
         LET L == significant_mutations[kind]
         IN  \E i, j \in 1..Len(L) : i < j /\ SameKey(kind, L[i].row, L[j].row)

\* C17: the value validate_knn_imputation returns holds the winning neighbor
\* count with its average MSE and R2, which is an entry of the per-candidate
\* table, and, beside these, the whole per-candidate table.
C17_TableInOutput ==
    pc = "validated" =>
        LET beside == DOMAIN best_result \ {"n_neighbors", "mse", "r2"}
        IN  /\ \E i \in 1..Len(validation_results) : validation_results[i] = best_result
            /\ beside # {}
            /\ \E f \in beside : best_result[f] = validation_results

\* A finished validation whose table has an entry for a candidate that did not win.
C17_Witness ==
    /\ pc = "validated"
    /\ \E i \in 1..Len(validation_results) :
         validation_results[i].n_neighbors # best_result.n_neighbors

\* z is the z-score of the score x with the mean and the sample std of the scores
\* xs: undefined when xs has fewer than two scores or no spread, else a value with
\* the sign of x - mean and z^2 * variance = (x - mean)^2.
NormalizedOver(z, x, xs) ==
    LET n   == Len(xs)
        m   == Rat(IntSum(xs), n)
        ssd == RSum([i \in 1..n |-> RMul(RSub(RInt(xs[i]), m), RSub(RInt(xs[i]), m))])
        dev == RSub(RInt(x), m)
    IN  IF n < 2 \/ ssd = RInt(0) THEN z = ZNaN
        ELSE /\ z # ZNaN
             /\ RSign(<<z[1], z[2]>>) = RSign(dev)
             /\ RMul(RMul(RMul(<<z[1], z[2]>>, <<z[1], z[2]>>), z[3]),
                     RDiv(ssd, RInt(n - 1))) = RMul(dev, dev)

\* The scores of the raw records of an experiment, each record once.
RawScoresOf(e) ==
    LET rows == SelectSeq(raw_df, LAMBDA r : r.experiment_id = e)
    IN  [i \in 1..Len(rows) |-> rows[i].score]

\* The scores of the raw records of an experiment, each as many times as its
\* notation has tokens.
RECURSIVE Repeat(_, _)
Repeat(x, k) == IF k = 0 THEN <<>> ELSE <<x>> \o Repeat(x, k - 1)

RECURSIVE TokenScores(_, _)
TokenScores(recs, e) ==
    IF recs = <<>> THEN <<>>
    ELSE (IF recs[1].experiment_id = e
          THEN Repeat(recs[1].score, Len(ParseHgvsPro(recs[1].hgvs_pro)))
          ELSE <<>>) \o TokenScores(Tail(recs), e)

\* C18 as stated: every z-score is taken with the mean and std of the scores of
\* the raw records of its experiment, each raw record counted once, records with
\* the synonymous indicator or no notation included.
C18_AsClaimed ==
    pc \in {"pivot", "assembled"} =>
        \A i \in 1..Len(df_scored) :
            NormalizedOver(df_scored[i].z_score, df_scored[i].score,
                           RawScoresOf(df_scored[i].experiment_id))

\* C18: every z-score is taken with the mean and std of the scores of the atomic
\* records of its experiment: a raw record counts once per token of its notation,
\* and a record with the synonymous indicator or no notation does not count.
C18_OncePerToken ==
    pc \in {"pivot", "assembled"} =>
        \A i \in 1..Len(df_scored) :
            NormalizedOver(df_scored[i].z_score, df_scored[i].score,
                           TokenScores(raw_df, df_scored[i].experiment_id))

\* A normalised experiment with a record of two tokens, a record of another score
\* and a record without tokens.
C18_Witness ==
    /\ pc = "pivot"
    /\ \E a, b, c \in 1..Len(raw_df) :
         /\ raw_df[a].experiment_id = raw_df[b].experiment_id
         /\ raw_df[a].experiment_id = raw_df[c].experiment_id
         /\ Len(ParseHgvsPro(raw_df[a].hgvs_pro)) = 2
         /\ Len(ParseHgvsPro(raw_df[b].hgvs_pro)) = 1
         /\ Len(ParseHgvsPro(raw_df[c].hgvs_pro)) = 0
         /\ raw_df[a].score # raw_df[b].score
         /\ \E i \in 1..Len(df_scored) : df_scored[i].z_score # ZNaN

\* The tokens the parser returns for raw record r.
TokensOf(r) == ParseHgvsPro(raw_df[r].hgvs_pro)

\* The number of atomic records due before those of raw record r.
RECURSIVE TokensBefore(_)
TokensBefore(r) == IF r = 1 THEN 0 ELSE TokensBefore(r - 1) + Len(TokensOf(r - 1))

\* The raw records that have tokens.
WithTokens == SelectSeq(raw_df, LAMBDA rec : ParseHgvsPro(rec.hgvs_pro) # <<>>)

\* C19: the atomic records are, raw record by raw record, one per token the parser
\* returns, each with the raw record's experiment id and score; a raw record with
\* no notation or the synonymous indicator has no atomic record, and the effect
\* matrix is the one the records with tokens give alone.
C19_OneRecordPerToken ==
    pc \in {"score", "pivot", "assembled"} =>
        /\ Len(df_processed) = TokensBefore(Len(raw_df) + 1)
        /\ \A r \in 1..Len(raw_df) :
             /\ \A k \in 1..Len(TokensOf(r)) :
                  LET a == df_processed[TokensBefore(r) + k]
                  IN  /\ a.mutation = TokensOf(r)[k]
                      /\ a.experiment_id = raw_df[r].experiment_id
                      /\ a.score = raw_df[r].score
             /\ (raw_df[r].hgvs_pro.absent \/ raw_df[r].hgvs_pro.text = Synonymous)
                    => Len(TokensOf(r)) = 0
        /\ pc = "assembled" =>
             heatmap_data = PivotTable(CalculateZScoresOf(ProcessMutationsOf(WithTokens)))

\* An effect matrix with cells, built from records among which one has two tokens
\* and one has none.
C19_Witness ==
    /\ pc = "assembled"
    /\ NRows(heatmap_data) > 0
    /\ \E r \in 1..Len(raw_df) : Len(TokensOf(r)) = 2
    /\ \E r \in 1..Len(raw_df) :
         raw_df[r].hgvs_pro.absent \/ raw_df[r].hgvs_pro.text = Synonymous

\* The defined z-scores of the atomic records of mutation m in experiment e.
DefinedZScores(m, e) ==
    LET rows == SelectSeq(df_scored, LAMBDA r : /\ r.mutation = m /\ r.experiment_id = e
                                                /\ r.z_score # ZNaN)
    IN  [i \in 1..Len(rows) |-> rows[i].z_score]

\* The entry of the effect matrix for (m, e); ZNaN where the matrix has no such
\* row, no such column or an empty cell.
EntryOf(m, e) ==
    LET rs == { r \in 1..NRows(heatmap_data) : heatmap_data.index[r] = m }
        cs == { c \in 1..NCols(heatmap_data) : heatmap_data.columns[c] = e }
    IN  IF rs = {} \/ cs = {} THEN ZNaN
        ELSE heatmap_data.data[CHOOSE r \in rs : TRUE][CHOOSE c \in cs : TRUE]

Bijections(n) == { p \in [1..n -> 1..n] : \A i, j \in 1..n : p[i] = p[j] => i = j }

Reordered(recs, p) == [i \in 1..Len(recs) |-> recs[p[i]]]

\* C20: the entry for (mutation, experiment) is the arithmetic mean of the defined
\* z-scores of the atomic records of that pair (n times the entry is their sum,
\* under their common radical), a pair without such a record has no entry, and the
\* raw records taken in any other order give the same matrix.
C20_MeanOfGroup ==
    pc = "assembled" =>
        /\ \A m \in { df_scored[i].mutation : i \in 1..Len(df_scored) }
                    \cup { heatmap_data.index[r] : r \in 1..NRows(heatmap_data) } :
           \A e \in RawExperiments :
             LET zs == DefinedZScores(m, e)
                 x  == EntryOf(m, e)
             IN  IF zs = <<>> THEN x = ZNaN
                 ELSE /\ x # ZNaN
                      /\ x[3] = zs[1][3]
                      /\ RMul(RInt(Len(zs)), <<x[1], x[2]>>) = RSum(Coefs(zs))
        /\ \A p \in Bijections(Len(raw_df)) :
             PivotTable(CalculateZScoresOf(ProcessMutationsOf(Reordered(raw_df, p))))
                = heatmap_data

\* A matrix of two experiments with an entry averaging two different z-scores and
\* a pair without record.
C20_Witness ==
    /\ pc = "assembled"
    /\ NCols(heatmap_data) = 2
    /\ \E r \in 1..NRows(heatmap_data) : \E c \in 1..2 :
         LET zs == DefinedZScores(heatmap_data.index[r], heatmap_data.columns[c])
         IN  Len(zs) = 2 /\ zs[1] # zs[2]
    /\ \E r \in 1..NRows(heatmap_data) : \E c \in 1..2 :
         /\ heatmap_data.data[r][c] = ZNaN
         /\ \A i \in 1..Len(df_scored) :
              ~(/\ df_scored[i].mutation = heatmap_data.index[r]
                /\ df_scored[i].experiment_id = heatmap_data.columns[c])

\* The cells of the coverage-filtered matrix that hold a value.
PresentCells ==
    { rc \in (1..NRows(well_covered_df)) \X (1..NCols(well_covered_df)) :
        well_covered_df.data[rc[1]][rc[2]] # NaN }

\* C21: in every fold the hidden cells are cells that hold a value in the input
\* matrix, every compared pair sits at a hidden cell and takes its true value from
\* the input matrix there, and no fold changes the input matrix.
C21_HiddenWithinKnown ==
    /\ [](\A i \in 1..Len(fold_log) :
            /\ fold_log[i].hidden \subseteq PresentCells
            /\ \A j \in 1..Len(fold_log[i].pairs) :
                 LET pair == fold_log[i].pairs[j]
                 IN  /\ pair.cell \in fold_log[i].hidden
                     /\ pair.t = well_covered_df.data[pair.cell[1]][pair.cell[2]])
    /\ [][pc = "fold" => well_covered_df' = well_covered_df]_vars

\* A fold that hid cells and compared pairs on a matrix with a missing cell whose
\* draw fell below the hide fraction.
C21_Witness ==
    \E i \in 1..Len(fold_log) :
        /\ fold_log[i].hidden # {}
        /\ fold_log[i].pairs # <<>>
        /\ \E rc \in ((1..NRows(well_covered_df)) \X (1..NCols(well_covered_df))) \ PresentCells :
             DrawBelow(fold_log[i].split, (rc[1] - 1) * NCols(well_covered_df) + (rc[2] - 1))

\* The matrix perform_knn_imputation hands to the imputer: the rows of df with at
\* least five present entries.
ImputerInput ==
    LET kept == { r \in 1..NRows(df) : RowCount(df.data[r]) >= 5 }
    IN  [rows |-> kept, columns |-> 1..NCols(df)]

\* Column c holds no value in any row handed to the imputer.
NoDonor(c) == \A r \in ImputerInput.rows : df.data[r][c] = NaN

\* C22: for every matrix handed to the imputer, with at least one row, and every
\* neighbour count the call returns a frame with the same rows and columns, in which
\* a missing cell of a column without any donor row is still undefined.  Refuted:
\* such a column is dropped by the imputer and the frame cannot be built.
C22_SameShapeGapsKept ==
    (pc # "impute" /\ ImputerInput.rows # {}) =>
        /\ pc # "error"
        /\ NRows(imputed_df) = Cardinality(ImputerInput.rows)
        /\ imputed_df.columns = df.columns
        /\ \A i \in 1..NRows(imputed_df) : \A c \in ImputerInput.columns :
             NoDonor(c) => imputed_df.data[i][c] = NaN

\* The call failed on a matrix with rows and a column without donor.
C22_Witness ==
    /\ pc = "error"
    /\ ImputerInput.rows # {}
    /\ \E c \in ImputerInput.columns : NoDonor(c)

\* The i-th row handed to the imputer, as a row of df.
KeptRow(i) ==
    CHOOSE r \in ImputerInput.rows : Cardinality({ q \in ImputerInput.rows : q <= r }) = i

\* The rows handed to the imputer that hold a value in column c.
EligibleRows(c) == { a \in ImputerInput.rows : df.data[a][c] # NaN }

\* The columns present in both rows.
CommonColumns(r, a) ==
    { c \in 1..NCols(df) : df.data[r][c] # NaN /\ df.data[a][c] # NaN }

RECURSIVE SquaredDiffs(_, _, _)
SquaredDiffs(r, a, cols) ==
    IF cols = {} THEN RInt(0)
    ELSE LET c == CHOOSE x \in cols : TRUE
             d == RSub(df.data[r][c], df.data[a][c])
         IN  RAdd(RMul(d, d), SquaredDiffs(r, a, cols \ {c}))

\* Row a is strictly nearer to row r than row b: by the mean squared difference
\* over the common columns, a row without common column being farther than any
\* row with one.
Nearer(r, a, b) ==
    /\ CommonColumns(r, a) # {}
    /\ \/ CommonColumns(r, b) = {}
       \/ RLess(RDiv(SquaredDiffs(r, a, CommonColumns(r, a)),
                     RInt(Cardinality(CommonColumns(r, a)))),
                RDiv(SquaredDiffs(r, b, CommonColumns(r, b)),
                     RInt(Cardinality(CommonColumns(r, b)))))

RECURSIVE ColumnSum(_, _)
ColumnSum(rows, c) ==
    IF rows = {} THEN RInt(0)
    ELSE LET a == CHOOSE x \in rows : TRUE
         IN  RAdd(df.data[a][c], ColumnSum(rows \ {a}, c))

\* Equally weighted mean of column c over a non-empty set of rows.
ColumnMean(rows, c) == RDiv(ColumnSum(rows, c), RInt(Cardinality(rows)))

\* The sets of min(k, e) eligible rows nearest to row r.
NearestSets(r, c) ==
    LET E == EligibleRows(c)
        n == IF n_neighbors < Cardinality(E) THEN n_neighbors ELSE Cardinality(E)
    IN  { N \in SUBSET E : /\ Cardinality(N) = n
                           /\ \A a \in N : \A b \in E \ N : ~Nearer(r, b, a) }

\* The missing cells of the matrix handed to the imputer, by row position.
MissingCells ==
    { ic \in (1..Cardinality(ImputerInput.rows)) \X (1..NCols(df)) :
        df.data[KeptRow(ic[1])][ic[2]] = NaN }

\* C23 as stated: every imputed value is the equally weighted mean of its column
\* over min(k, e) nearest of the e eligible rows.
C23_AsClaimed ==
    pc = "imputed" =>
        \A ic \in MissingCells :
            \E N \in NearestSets(KeptRow(ic[1]), ic[2]) :
                imputed_df.data[ic[1]][ic[2]] = ColumnMean(N, ic[2])

\* C23: every imputed value is the equally weighted mean of its column over those
\* of min(k, e) nearest eligible rows that have a column in common with row r, and
\* over all e eligible rows when none of them has.
C23_MeanOverComparableNearest ==
    pc = "imputed" =>
        \A ic \in MissingCells :
            \E N \in NearestSets(KeptRow(ic[1]), ic[2]) :
                LET U == { a \in N : CommonColumns(KeptRow(ic[1]), a) # {} }
                IN  imputed_df.data[ic[1]][ic[2]] =
                        IF U # {} THEN ColumnMean(U, ic[2])
                        ELSE ColumnMean(EligibleRows(ic[2]), ic[2])

\* A returned matrix with a cell that has no more eligible rows than neighbours
\* asked for, one of them without a column in common with the cell's row and one
\* with, and a cell filled by rows that all have columns in common.
C23_Witness ==
    /\ pc = "imputed"
    /\ \E ic \in MissingCells :
         /\ Cardinality(EligibleRows(ic[2])) <= n_neighbors
         /\ \E a, b \in EligibleRows(ic[2]) :
              /\ CommonColumns(KeptRow(ic[1]), a) = {}
              /\ CommonColumns(KeptRow(ic[1]), b) # {}
    /\ \E ic \in MissingCells :
         \A a \in EligibleRows(ic[2]) : CommonColumns(KeptRow(ic[1]), a) # {}

\* C24: the frame perform_knn_imputation returns has, row by row, the mutations
\* and the experiments of the matrix handed to the imputer, and at every cell that
\* was present there the identical value.
C24_ObservedKept ==
    pc \in {"imputed", "analysed"} =>
        /\ NRows(imputed_df) = Cardinality(ImputerInput.rows)
        /\ imputed_df.columns = df.columns
        /\ \A i \in 1..NRows(imputed_df) :
             /\ imputed_df.index[i] = df.index[KeptRow(i)]
             /\ \A c \in 1..NCols(df) :
                  df.data[KeptRow(i)][c] # NaN =>
                      imputed_df.data[i][c] = df.data[KeptRow(i)][c]

\* A returned frame of two rows or more with a filled cell that differs from a
\* present cell of its column.
C24_Witness ==
    /\ pc = "imputed"
    /\ NRows(imputed_df) >= 2
    /\ n_neighbors >= 2
    /\ \E ic \in MissingCells : \E j \in 1..NRows(imputed_df) :
         /\ df.data[KeptRow(j)][ic[2]] # NaN
         /\ imputed_df.data[ic[1]][ic[2]] # imputed_df.data[j][ic[2]]

\* C25: within one call, two folds of the same index hide the same cells, whatever
\* the neighbour counts they were run for.
C25_SameHiddenPerFold ==
    \A i, j \in 1..Len(fold_log) :
        fold_log[i].split = fold_log[j].split => fold_log[i].hidden = fold_log[j].hidden

\* A finished call in which two candidates ran a fold of one index that hid cells,
\* and two folds of different index hid different cells.
C25_Witness ==
    /\ pc = "validated"
    /\ \E i, j \in 1..Len(fold_log) :
         /\ fold_log[i].split = fold_log[j].split
         /\ fold_log[i].n_neighbors # fold_log[j].n_neighbors
         /\ fold_log[i].hidden # {}
    /\ \E i, j \in 1..Len(fold_log) : fold_log[i].hidden # fold_log[j].hidden

\* The calls of run_step follow the request: the j-th call is for the j-th
\* requested number, and every call before the last one returned True.
CallsFollowRequest ==
    /\ Len(run_step_calls) <= Len(steps_to_run)
    /\ \A j \in 1..Len(run_step_calls) :
         /\ run_step_calls[j].step_number = steps_to_run[j]
         /\ j < Len(run_step_calls) => run_step_calls[j].result

SucceededCalls == Cardinality({ j \in 1..Len(run_step_calls) : run_step_calls[j].result })

\* The runner went as far as the first step that failed or is not defined, or
\* through the whole request.
StoppedAtFirstObstacle ==
    LET n == Len(run_step_calls)
    IN  \/ n > 0 /\ ~run_step_calls[n].result
        \/ n = Len(steps_to_run)
        \/ n < Len(steps_to_run) /\ steps_to_run[n + 1] \notin DOMAIN steps

\* The counts of the 'Successfully completed a/b steps' lines printed so far.
ReportedCounts ==
    { <<console[i].n, console[i].m>> :
        i \in { j \in 1..Len(console) : console[j].msg = "Successfully completed" } }

AllCompletedReported ==
    \E i \in 1..Len(console) : console[i].msg = "All steps completed successfully!"

\* The runner has ended on a request whose numbers all parsed.
Ended == pc \in {"exit", "KeyError"}

\* C26: the steps are started one at a time in the order listed and none is
\* started after a step that failed; when the runner has ended it has gone as far
\* as the first step that failed or is not defined, it has reported the number of
\* steps that succeeded before that point, and it has reported that all steps
\* completed only if every requested step succeeded.
C26_StopsAndReports ==
    /\ CallsFollowRequest
    /\ Ended =>
         /\ StoppedAtFirstObstacle
         /\ ReportedCounts = {<<SucceededCalls, Len(steps_to_run)>>}
         /\ AllCompletedReported => SucceededCalls = Len(steps_to_run)

\* The same for the requests that name defined steps only.
C26_WhenEveryStepDefined ==
    (\A i \in 1..Len(steps_to_run) : steps_to_run[i] \in DOMAIN steps) => C26_StopsAndReports

\* The runner has ended on a request whose first step is defined and has its
\* script, and whose later step is not defined: no step was started and no count
\* was reported.
C26_Witness ==
    /\ pc = "KeyError"
    /\ Len(steps_to_run) >= 2
    /\ steps_to_run[1] \in DOMAIN steps
    /\ ScriptName(steps_to_run[1], steps[steps_to_run[1]]) \in files
    /\ \E i \in 2..Len(steps_to_run) : steps_to_run[i] \notin DOMAIN steps
    /\ run_step_calls = <<>>
    /\ ReportedCounts = {}

\* A run that ended after a first step that succeeded and a second that failed,
\* with one step reported as completed.
C26_StoppedRun ==
    /\ pc = "exit"
    /\ Len(steps_to_run) = 3
    /\ Len(run_step_calls) = 2
    /\ run_step_calls[1].result /\ ~run_step_calls[2].result
    /\ ReportedCounts = {<<1, 3>>}

====
